---- MODULE Spec2Model ----
(***************************************************************************)
(* Model of the secure account store of Dilial-API                         *)
(* (components/accounts.js, held in src/unnamed/part_006) and of the        *)
(* provider calls that use it (components/auth.js).                         *)
(*                                                                         *)
(* Representation of JavaScript values:                                     *)
(*   - a uuid is a number of 1..NumUuids; 0 stands for a missing uuid       *)
(*     (undefined, null and '' are all falsy in `!authData.uuid`);          *)
(*   - a string field holds a string; Undefined stands for a property that  *)
(*     is not there, Null for null; both are falsy, like '';                *)
(*   - expiresAt is a number of milliseconds; 0 stands for null (falsy);    *)
(*   - lastUsed is the clock reading whose ISO rendering the code stores;   *)
(*   - activeAccount is a reference to one of the objects of `accounts`:    *)
(*     it is kept as the index of that object in the list, 0 for null.      *)
(*     Every object of the list sits in exactly one slot (push, slot        *)
(*     assignment and filter never share an object between slots), and the  *)
(*     code never keeps a reference to an object it drops from the list:    *)
(*     addAccount re-points activeAccount to the new object, removeAccount  *)
(*     re-points it exactly when the referenced object has the removed uuid.*)
(***************************************************************************)
EXTENDS Integers, Sequences, FiniteSets, TLC

VARIABLES
    accounts,        \* the account list of accounts.js
    activeAccount,   \* the reference to the active account (a slot, 0 for null)
    storageConfig,   \* the backend selected and the `initialized` flag
    encryptionKey,   \* the key in memory
    disk,            \* the storage media: two file locations (directory, key
                     \* file, accounts file) and the electron store
    failures,        \* how many writes the backend has refused
    last,            \* the last call: its name, uuid, result and what it found
    emptied,         \* history: a removal has left the list empty
    returned,        \* what the last call returned, when it was a read
    flow,            \* the call of auth.js in flight, or the last one settled
    racing,          \* a second call of auth.js, started while the first is in
                     \* flight
    versions,        \* versions.js: cachedVersions and lastFetchTime
    clock            \* what Date.now() reads in versions.js

vars == <<accounts, activeAccount, storageConfig, encryptionKey, disk,
          failures, last, emptied, returned, flow, racing, versions, clock>>

(***************************************************************************)
(* Bounds of the model.                                                     *)
(***************************************************************************)
NumUuids == 3
MaxWriteFailures == 1

UUIDs == 1..NumUuids

\* The values the environment may hand to a call: clock readings, random
\* ivs (crypto.randomBytes(16)) and random keys (crypto.randomBytes(32)).
Times == {1, 2}
IVs == {"iv1", "iv2"}
Keys == {"k1", "k2"}

Undefined == "undefined"

\* versions.js lines 9-10: cachedVersions = null (the empty sequence; a
\* cached list is a sequence of one list) and lastFetchTime = null (0).
NoVersions == [cachedVersions |-> <<>>, lastFetchTime |-> 0]
Null == "null"
NoKey == "nokey"

Truthy(v) == v \notin {Undefined, Null, ""}

(***************************************************************************)
(* Crypto envelope: AES-256-GCM as an ideal authenticated cipher. The       *)
(* ciphertext and the tag are terms over the key, the iv and the text: the  *)
(* cipher is a stream cipher, so every other ciphertext of the same length  *)
(* is the ciphertext of another text under the same key and iv.             *)
(***************************************************************************)
Cipher(key, iv, text) == <<"aes-256-gcm", key, iv, text>>

AuthTag(key, iv, ciphertext) == <<"gcm-tag", key, iv, ciphertext>>

\* The first n bytes of a tag.
FirstBytes(tag, n) == <<"first-bytes", n, tag>>

\* A hex string is the bytes it spells and its spelling. toString('hex')
\* and the 'hex' output encoding spell in lower case; Buffer.from(s, 'hex')
\* and the 'hex' input encoding read both cases and stop at the first
\* character that is no hex digit ("junk": the string starts with one).
\* MissingProperty stands for a property the parsed envelope has not.
Hex(bytes) == [bytes |-> bytes, spelling |-> "lower"]

MissingProperty == [bytes |-> <<>>, spelling |-> Undefined]

\* Buffer.from(h, 'hex') throws a TypeError on undefined.
FromHexThrows(h) == h.spelling = Undefined

\* A string that spells no byte decodes to the empty buffer.
Spelled(h) == h.spelling \in {"lower", "upper"}

FromHex(h) == IF Spelled(h) THEN h.bytes ELSE <<>>

\* accounts.js lines 31-43; JSON.stringify of the three hex strings is the
\* record of them.
encrypt(text, key, iv) ==
    LET encrypted == Cipher(key, iv, text)
    IN  [iv |-> Hex(iv), encrypted |-> Hex(encrypted),
         authTag |-> Hex(AuthTag(key, iv, encrypted))]

\* createCipheriv throws on a null key: encrypt throws "Encryption error".
encryptThrows(key) == key = NoKey

(***************************************************************************)
(* JSON.stringify / JSON.parse of the account list: an object becomes the   *)
(* sequence of its property values in insertion order, and back.            *)
(***************************************************************************)
StringifyAccount(acc) ==
    <<acc.uuid, acc.username, acc.type, acc.accessToken, acc.clientToken,
      acc.refreshToken, acc.expiresAt, acc.profile, acc.active, acc.lastUsed>>

ParseAccount(t) ==
    [uuid |-> t[1], username |-> t[2], type |-> t[3], accessToken |-> t[4],
     clientToken |-> t[5], refreshToken |-> t[6], expiresAt |-> t[7],
     profile |-> t[8], active |-> t[9], lastUsed |-> t[10]]

JSONstringify(accs) == [i \in 1..Len(accs) |-> StringifyAccount(accs[i])]

JSONparse(text) == [i \in 1..Len(text) |-> ParseAccount(text[i])]

(***************************************************************************)
(* The store as one value, and the environment of one call: the clock,     *)
(* the random iv and key, and whether the file system accepts the writes.   *)
(***************************************************************************)
Store ==
    [accounts |-> accounts, activeAccount |-> activeAccount,
     storageConfig |-> storageConfig, encryptionKey |-> encryptionKey,
     disk |-> disk]

EnvsOf(times, keys, writes) ==
    [now : times, iv : IVs, writeOk : writes, newKey : keys,
     mkdirOk : {TRUE}, keyWriteOk : {TRUE}]

\* A fresh storage location: no directory, no key file, no accounts file.
EmptyDisk == [dir |-> FALSE, key |-> NoKey, blob |-> <<>>]

\* An electron store without the two entries ('encryptionKey', 'accounts').
EmptyElectronStore == [dir |-> TRUE, key |-> NoKey, blob |-> <<>>]

\* The media before the library has ever run: the default location
\* ("home"), another location a configuration may name ("alt") and the
\* electron store a configuration may hand over.
FreshMedia ==
    [home |-> EmptyDisk, alt |-> EmptyDisk, electron |-> EmptyElectronStore,
     custom |-> EmptyElectronStore]

\* A custom handler is the callbacks it has: `present` tells an object from
\* null, the four others tell which of read, write, readKey and writeKey
\* are functions. The callbacks that are there read and write the medium
\* "custom" of the host application.
Handler(read, write, readKey, writeKey) ==
    [present |-> TRUE, read |-> read, write |-> write, readKey |-> readKey,
     writeKey |-> writeKey]

\* customHandler: null (line 13)
NoHandler ==
    [present |-> FALSE, read |-> FALSE, write |-> FALSE, readKey |-> FALSE,
     writeKey |-> FALSE]

\* A guard that looks at the handler and not at the callback.
Can_HandlerOnly(S, callback) ==
    S.storageConfig.type = "custom" => S.storageConfig.customHandler.present

\* The guard of a 'custom' case: the handler is there and the callback is a
\* function. The other backends have all four capabilities.
Can(S, callback) ==
    S.storageConfig.type = "custom" =>
        S.storageConfig.customHandler.present /\ S.storageConfig.customHandler[callback]

\* The medium the four storage functions reach under the configuration:
\* the switch of lines 72-91, 101-115, 125-142 and 152-168. A 'memory'
\* backend, an 'electron' backend without a store and a 'custom' backend
\* without a handler reach none.
Medium(S) ==
    CASE S.storageConfig.type = "file" -> S.storageConfig.location
      [] S.storageConfig.type = "electron" /\ S.storageConfig.electronStore ->
           "electron"
      [] S.storageConfig.type = "custom" /\ S.storageConfig.customHandler.present ->
           "custom"
      [] OTHER -> "none"

\* An accounts file that is missing or blank, and a store without the
\* entry, are the empty sequence.
readEncryptedData(S) ==
    IF Medium(S) = "none" \/ ~Can(S, "read") THEN <<>> ELSE S.disk[Medium(S)].blob

writeEncryptedData(S, encryptedData, env) ==
    IF Medium(S) # "none" /\ Can(S, "write")
    THEN IF env.writeOk /\ S.disk[Medium(S)].dir
         THEN [store |-> [S EXCEPT !.disk[Medium(S)].blob = <<encryptedData>>],
               result |-> TRUE, ioFailed |-> FALSE]
         ELSE [store |-> S, result |-> FALSE, ioFailed |-> TRUE]
    ELSE [store |-> S, result |-> TRUE, ioFailed |-> FALSE]

readEncryptionKey(S) ==
    IF Medium(S) = "none" \/ ~Can(S, "readKey") THEN NoKey ELSE S.disk[Medium(S)].key

writeEncryptionKey(S, key, env) ==
    IF Medium(S) # "none" /\ Can(S, "writeKey") /\ env.keyWriteOk
       /\ S.disk[Medium(S)].dir
    THEN [S EXCEPT !.disk[Medium(S)].key = key]
    ELSE S

\* A save that appends to the list the blob holds instead of replacing the
\* blob: the accounts the blob held stay in it.
saveAccounts_Merges(S, env) ==
    IF S.storageConfig.type = "memory"
    THEN [store |-> S, result |-> TRUE, ioFailed |-> FALSE]
    ELSE IF encryptThrows(S.encryptionKey)
         THEN [store |-> S, result |-> FALSE, ioFailed |-> FALSE]
         ELSE IF readEncryptedData(S) = <<>>
         THEN writeEncryptedData(
                  S, encrypt(JSONstringify(S.accounts), S.encryptionKey, env.iv), env)
         ELSE writeEncryptedData(
                  S, encrypt(readEncryptedData(S)[1].encrypted.bytes[4]
                                 \o JSONstringify(S.accounts),
                             S.encryptionKey, env.iv), env)

saveAccounts(S, env) ==
    IF S.storageConfig.type = "memory"
    THEN [store |-> S, result |-> TRUE, ioFailed |-> FALSE]
    ELSE IF encryptThrows(S.encryptionKey)
         THEN [store |-> S, result |-> FALSE, ioFailed |-> FALSE]
         ELSE writeEncryptedData(
                  S, encrypt(JSONstringify(S.accounts), S.encryptionKey, env.iv), env)


\* JSON.parse of the blob yields an object with the three properties; a
\* blob that is no JSON text is a record without them.
NotJson == [text |-> "garbage"]

IsEnvelope(blob) == DOMAIN blob = {"iv", "encrypted", "authTag"}

\* The number of bytes of a tag buffer.
TagLength(tag) ==
    IF tag = <<>> THEN 0 ELSE IF tag[1] = "first-bytes" THEN tag[2] ELSE 16

\* decipher.setAuthTag of a decipher created without the authTagLength
\* option takes every tag length GCM allows (4, 8, 12 to 16 bytes) and
\* throws on any other.
ValidGCMTagLength(n) == n \in {4, 8} \cup 12..16

\* Mutant: only a tag of 16 bytes verifies.
TagVerifies_FullLength(tag, expected) == tag = expected

\* decipher.final() compares as many bytes of the tag as it was given.
TagVerifies(tag, expected) ==
    \/ tag = expected
    \/ tag[1] = "first-bytes" /\ tag[3] = expected

\* accounts.js lines 50-67: what makes decrypt throw "Decryption error".
decryptThrows(envelope, key) ==
    \/ key = NoKey
    \/ ~IsEnvelope(envelope)
    \/ FromHexThrows(envelope.iv) \/ ~Spelled(envelope.iv)
    \/ FromHexThrows(envelope.authTag)
    \/ ~ValidGCMTagLength(TagLength(FromHex(envelope.authTag)))
    \/ FromHexThrows(envelope.encrypted) \/ ~Spelled(envelope.encrypted)
    \/ LET iv == FromHex(envelope.iv)
           encrypted == FromHex(envelope.encrypted)
       IN  \/ encrypted # Cipher(key, iv, encrypted[4])
           \/ ~TagVerifies(FromHex(envelope.authTag), AuthTag(key, iv, encrypted))

decrypt(envelope, key) == FromHex(envelope.encrypted)[4]

\* accounts.findIndex(acc => acc.uuid === uuid), 1-based; 0 stands for -1.
FindIndex(accs, uuid) ==
    IF \E i \in 1..Len(accs) : accs[i].uuid = uuid
    THEN CHOOSE i \in 1..Len(accs) :
             /\ accs[i].uuid = uuid
             /\ \A j \in 1..(i - 1) : accs[j].uuid # uuid
    ELSE 0

\* accounts.find(acc => acc.active) || null, as a reference into the list.
FindActive(accs) ==
    IF \E i \in 1..Len(accs) : accs[i].active
    THEN CHOOSE i \in 1..Len(accs) :
             /\ accs[i].active
             /\ \A j \in 1..(i - 1) : ~accs[j].active
    ELSE 0

Done(S, result) == [store |-> S, result |-> result, ioFailed |-> FALSE]

\* Lines 203-210: the key of the backend, or a new one written to it (the
\* result of the write is not looked at).
LoadKey(S, existingKey, env) ==
    IF existingKey = NoKey
    THEN writeEncryptionKey([S EXCEPT !.encryptionKey = env.newKey], env.newKey, env)
    ELSE [S EXCEPT !.encryptionKey = existingKey]

\* A load that resets the list in memory and leaves the blob as it is.
LoadAccounts_KeepsBlob(S, encryptedData, env) ==
    IF Len(encryptedData) > 0 /\ ~decryptThrows(encryptedData[1], S.encryptionKey)
    THEN Done([S EXCEPT
                 !.accounts = JSONparse(decrypt(encryptedData[1], S.encryptionKey)),
                 !.activeAccount =
                     FindActive(JSONparse(decrypt(encryptedData[1], S.encryptionKey)))],
              TRUE)
    ELSE Done([S EXCEPT !.accounts = <<>>, !.activeAccount = 0], TRUE)

\* Lines 214-231: the list of the blob, or the empty list, saved, when there
\* is no blob or decrypt or JSON.parse throws (the result of the save is not
\* looked at).
LoadAccounts(S, encryptedData, env) ==
    IF Len(encryptedData) > 0 /\ ~decryptThrows(encryptedData[1], S.encryptionKey)
    THEN Done([S EXCEPT
                 !.accounts = JSONparse(decrypt(encryptedData[1], S.encryptionKey)),
                 !.activeAccount =
                     FindActive(JSONparse(decrypt(encryptedData[1], S.encryptionKey)))],
              TRUE)
    ELSE [saveAccounts([S EXCEPT !.accounts = <<>>, !.activeAccount = 0], env)
            EXCEPT !.result = TRUE]

\* Lines 212-234
InitializeWithKey(S, env) ==
    [LoadAccounts(S, readEncryptedData(S), env)
       EXCEPT !.store.storageConfig.initialized = TRUE]

\* Lines 203-234
InitializeInDirectory(S, env) ==
    InitializeWithKey(LoadKey(S, readEncryptionKey(S), env), env)

initializeAccountStorage(S, env) ==
    IF S.storageConfig.initialized THEN Done(S, TRUE)
    ELSE IF S.storageConfig.type = "file" /\ ~S.disk[Medium(S)].dir /\ ~env.mkdirOk
    THEN [store |-> S, result |-> FALSE, ioFailed |-> TRUE]
    ELSE IF S.storageConfig.type = "file"
    THEN InitializeInDirectory([S EXCEPT !.disk[Medium(S)].dir = TRUE], env)
    ELSE InitializeInDirectory(S, env)

\* A configuration object; Undefined and FALSE stand for a property that
\* is not there.
Config(type, location, electronStore) ==
    [type |-> type, location |-> location, electronStore |-> electronStore,
     customHandler |-> NoHandler]

\* A configuration that selects the custom backend with a handler.
CustomConfig(handler) ==
    [Config("custom", Undefined, FALSE) EXCEPT !.customHandler = handler]

\* Lines 240-254: the properties of the configuration that are taken over.
Configured(storageConfiguration, config) ==
    [storageConfiguration EXCEPT
       !.type = IF config.type \in {"file", "electron", "memory", "custom"}
                THEN config.type ELSE @,
       !.location = IF Truthy(config.location) THEN config.location ELSE @,
       !.electronStore = IF config.electronStore THEN TRUE ELSE @,
       !.customHandler = IF config.customHandler.present
                         THEN config.customHandler ELSE @]

\* Mutant: the store stays flagged initialized.
configureStorage_KeepsFlag(S, config, env) ==
    initializeAccountStorage(
        [S EXCEPT !.storageConfig = Configured(@, config)], env)

\* accounts.js lines 239-258
configureStorage(S, config, env) ==
    initializeAccountStorage(
        [S EXCEPT !.storageConfig =
                      [Configured(@, config) EXCEPT !.initialized = FALSE]], env)

(***************************************************************************)
(* Inputs of addAccount and updateAuthData.                                 *)
(***************************************************************************)
NullAuthData == [null |-> TRUE]

IsNull(authData) == "null" \in DOMAIN authData

LegacyAuth(u) ==
    [uuid |-> u, username |-> "steve", type |-> Undefined,
     accessToken |-> "at1", clientToken |-> "ct1", refreshToken |-> Undefined,
     expiresAt |-> 0, profile |-> Undefined]

FederatedAuth(u) ==
    [uuid |-> u, username |-> "alex", type |-> "microsoft",
     accessToken |-> "at2", clientToken |-> "ct2", refreshToken |-> "rt2",
     expiresAt |-> 2, profile |-> "p2"]

\* Every uuid can log in through the legacy provider; uuids 1 and 2 have a
\* federated login as well, so that a stored record can be replaced by one
\* that differs in every field.
ValidAuthInputs(U) ==
    {LegacyAuth(u) : u \in U} \cup {FederatedAuth(u) : u \in U \cap {1, 2}}

\* Records addAccount rejects: no record, no uuid, no accessToken, an empty
\* clientToken.
InvalidAuthInputs(U) ==
    {NullAuthData, FederatedAuth(0)}
      \cup {[LegacyAuth(u) EXCEPT !.accessToken = Undefined] : u \in U}
      \cup {[FederatedAuth(u) EXCEPT !.clientToken = ""] : u \in U \cap {1}}

AuthInputs(U) == ValidAuthInputs(U) \cup InvalidAuthInputs(U)

UuidOf(authData) == IF IsNull(authData) THEN 0 ELSE authData.uuid

\* Mutant: the call goes on without initializing the store.
EnsureInitialized_Skips(S, env) == Done(S, TRUE)

\* The test each operation starts with (lines 262-266, 304-308, 335-339,
\* 356-360, 381-385, 403-407, 433-437).
EnsureInitialized(S, env) ==
    IF S.storageConfig.initialized THEN Done(S, TRUE)
    ELSE initializeAccountStorage(S, env)

\* Mutant: the test forgets the clientToken.
InvalidAuthData_NoClientToken(authData) ==
    \/ IsNull(authData)
    \/ ~Truthy(authData.accessToken)
    \/ authData.uuid = 0

\* The test of accounts.js line 268.
InvalidAuthData(authData) ==
    \/ IsNull(authData)
    \/ ~Truthy(authData.accessToken)
    \/ ~Truthy(authData.clientToken)
    \/ authData.uuid = 0

OrElse(v, d) == IF Truthy(v) THEN v ELSE d

\* The account object of accounts.js lines 274-285.
NewAccount(authData, now) ==
    [uuid |-> authData.uuid,
     username |-> authData.username,
     type |-> OrElse(authData.type, "mojang"),
     accessToken |-> authData.accessToken,
     clientToken |-> authData.clientToken,
     refreshToken |-> OrElse(authData.refreshToken, Null),
     expiresAt |-> authData.expiresAt,
     profile |-> OrElse(authData.profile, Null),
     active |-> TRUE,
     lastUsed |-> now]

Deactivated(accs) == [i \in 1..Len(accs) |-> [accs[i] EXCEPT !.active = FALSE]]

\* Mutant: the record is always appended.
AddToList_Appends(accs, account) == Append(Deactivated(accs), account)

\* Mutant: a stored record is dropped and the new one appended.
AddToList_MovesToEnd(accs, account) ==
    Append(SelectSeq(accs, LAMBDA acc : acc.uuid # account.uuid), account)

\* The replace branch with the flags of the other records cleared, as the
\* append branch clears them.
AddToList_ClearsOthers(accs, account) ==
    LET existingAccount == FindIndex(accs, account.uuid)
    IN  IF existingAccount > 0
        THEN [Deactivated(accs) EXCEPT ![existingAccount] = account]
        ELSE Append(Deactivated(accs), account)

\* accounts.js lines 287-294: the list and the reference after the update.
AddToList(accs, account) ==
    LET existingAccount == FindIndex(accs, account.uuid)
    IN  IF existingAccount > 0
        THEN [accs EXCEPT ![existingAccount] = account]
        ELSE Append(Deactivated(accs), account)

\* Lines 267-295, after the store was initialized if it had to be.
addAccountInitialized(init, authData, env) ==
    LET S1 == init.store
    IN  IF ~init.result \/ InvalidAuthData(authData)
        THEN [store |-> S1, result |-> FALSE, ioFailed |-> init.ioFailed]
        ELSE
          LET account == NewAccount(authData, env.now)
              list == AddToList(S1.accounts, account)
              saved == saveAccounts(
                  [S1 EXCEPT !.accounts = list,
                             !.activeAccount = FindIndex(list, account.uuid)], env)
          IN  [saved EXCEPT !.ioFailed = @ \/ init.ioFailed]

addAccount(S, authData, env) ==
    addAccountInitialized(EnsureInitialized(S, env), authData, env)

\* accounts.filter(acc => acc.uuid !== uuid)
RECURSIVE FilterOut(_, _)
FilterOut(accs, uuid) ==
    IF accs = <<>> THEN <<>>
    ELSE IF Head(accs).uuid = uuid THEN FilterOut(Tail(accs), uuid)
    ELSE <<Head(accs)>> \o FilterOut(Tail(accs), uuid)

\* Where the object of slot i of accs sits in accs.filter(...); it is kept.
SlotAfterFilter(accs, uuid, i) ==
    IF i = 0 THEN 0
    ELSE i - Cardinality({j \in 1..(i - 1) : accs[j].uuid = uuid})

\* Mutant: the last remaining account is promoted.
Promote_Last(accs) ==
    IF Len(accs) > 0
    THEN [accounts |-> [accs EXCEPT ![Len(accs)].active = TRUE],
          activeAccount |-> Len(accs)]
    ELSE [accounts |-> accs, activeAccount |-> 0]

\* Mutant: nobody is promoted.
Promote_None(accs) == [accounts |-> accs, activeAccount |-> 0]

\* accounts.js lines 317-324: promote the first remaining account.
Promote(accs) ==
    IF Len(accs) > 0
    THEN [accounts |-> [accs EXCEPT ![1].active = TRUE], activeAccount |-> 1]
    ELSE [accounts |-> accs, activeAccount |-> 0]

\* Mutant: the list is saved, and the save's result returned, even when no
\* account was removed.
removeAccount_AlwaysSaves(S, uuid, env) ==
    LET init == EnsureInitialized(S, env)
        S1 == init.store
    IN  IF ~init.result
        THEN [store |-> S1, result |-> FALSE, ioFailed |-> init.ioFailed]
        ELSE
          LET filtered == FilterOut(S1.accounts, uuid)
              wasActive == /\ S1.activeAccount # 0
                           /\ S1.accounts[S1.activeAccount].uuid = uuid
              promoted == Promote(filtered)
              S2 == IF wasActive
                    THEN [S1 EXCEPT !.accounts = promoted.accounts,
                                    !.activeAccount = promoted.activeAccount]
                    ELSE [S1 EXCEPT !.accounts = filtered,
                                    !.activeAccount =
                                        SlotAfterFilter(S1.accounts, uuid, @)]
          IN  saveAccounts(S2, env)

\* Lines 309-326, after the store was initialized if it had to be.
removeAccountInitialized(init, uuid, env) ==
    LET S1 == init.store
    IN  IF ~init.result
        THEN [store |-> S1, result |-> FALSE, ioFailed |-> init.ioFailed]
        ELSE
          LET filtered == FilterOut(S1.accounts, uuid)
          IN  IF Len(filtered) = Len(S1.accounts)
              THEN [store |-> [S1 EXCEPT !.accounts = filtered],
                    result |-> FALSE, ioFailed |-> init.ioFailed]
              ELSE
                LET wasActive == /\ S1.activeAccount # 0
                                 /\ S1.accounts[S1.activeAccount].uuid = uuid
                    promoted == Promote(filtered)
                    S2 == IF wasActive
                          THEN [S1 EXCEPT !.accounts = promoted.accounts,
                                          !.activeAccount = promoted.activeAccount]
                          ELSE [S1 EXCEPT !.accounts = filtered,
                                          !.activeAccount =
                                              SlotAfterFilter(S1.accounts, uuid, @)]
                    saved == saveAccounts(S2, env)
                IN  [saved EXCEPT !.ioFailed = @ \/ init.ioFailed]

removeAccount(S, uuid, env) ==
    removeAccountInitialized(EnsureInitialized(S, env), uuid, env)

\* Mutant: the record is flagged, the others are left as they are.
Activate_OnlySets(accs, uuid) ==
    [i \in 1..Len(accs) |->
        [accs[i] EXCEPT !.active = (@ \/ accs[i].uuid = uuid)]]

\* accounts.forEach(acc => acc.active = (acc.uuid === uuid))
Activate(accs, uuid) ==
    [i \in 1..Len(accs) |-> [accs[i] EXCEPT !.active = (accs[i].uuid = uuid)]]

\* Lines 386-394, after the store was initialized if it had to be.
setActiveAccountInitialized(init, uuid, env) ==
    LET S1 == init.store
        account == FindIndex(S1.accounts, uuid)
    IN  IF ~init.result \/ account = 0
        THEN [store |-> S1, result |-> FALSE, ioFailed |-> init.ioFailed]
        ELSE
          LET saved == saveAccounts(
                  [S1 EXCEPT !.accounts = Activate(S1.accounts, uuid),
                             !.activeAccount = account], env)
          IN  [saved EXCEPT !.ioFailed = @ \/ init.ioFailed]

setActiveAccount(S, uuid, env) ==
    setActiveAccountInitialized(EnsureInitialized(S, env), uuid, env)

(***************************************************************************)
(* updateAuthData: the fields of the partial record that are truthy.        *)
(***************************************************************************)
RefreshedAuth ==
    [accessToken |-> "at3", refreshToken |-> "rt3", expiresAt |-> 3,
     profile |-> Undefined]

ProfileOnly ==
    [accessToken |-> Undefined, refreshToken |-> Undefined, expiresAt |-> 0,
     profile |-> "p3"]

\* A partial record whose refreshToken and profile properties are there and
\* hold null: the caller asks for them to be cleared.
ClearedAuth ==
    [accessToken |-> Undefined, refreshToken |-> Null, expiresAt |-> 0,
     profile |-> Null]

PartialInputs == {RefreshedAuth, ProfileOnly, ClearedAuth}

\* Mutant: every property that is there is copied, whatever it holds.
ApplyAuthData_CopiesPresent(acc, authData, now) ==
    [acc EXCEPT
       !.accessToken = IF authData.accessToken # Undefined THEN authData.accessToken ELSE @,
       !.refreshToken = IF authData.refreshToken # Undefined THEN authData.refreshToken ELSE @,
       !.expiresAt = IF authData.expiresAt # 0 THEN authData.expiresAt ELSE @,
       !.profile = IF authData.profile # Undefined THEN authData.profile ELSE @,
       !.lastUsed = now]

\* accounts.js lines 445-461
ApplyAuthData(acc, authData, now) ==
    [acc EXCEPT
       !.accessToken = IF Truthy(authData.accessToken) THEN authData.accessToken ELSE @,
       !.refreshToken = IF Truthy(authData.refreshToken) THEN authData.refreshToken ELSE @,
       !.expiresAt = IF authData.expiresAt # 0 THEN authData.expiresAt ELSE @,
       !.profile = IF Truthy(authData.profile) THEN authData.profile ELSE @,
       !.lastUsed = now]

\* Mutant: an unknown uuid is reported as updated.
updateAuthDataInitialized_UnknownIsFine(init, uuid, authData, env) ==
    LET S1 == init.store
        accountIndex == FindIndex(S1.accounts, uuid)
    IN  IF ~init.result \/ accountIndex = 0
        THEN [store |-> S1, result |-> init.result, ioFailed |-> init.ioFailed]
        ELSE
          LET list == [S1.accounts EXCEPT
                          ![accountIndex] = ApplyAuthData(@, authData, env.now)]
              ref == IF /\ S1.activeAccount # 0
                        /\ S1.accounts[S1.activeAccount].uuid = uuid
                     THEN accountIndex ELSE S1.activeAccount
              saved == saveAccounts(
                  [S1 EXCEPT !.accounts = list, !.activeAccount = ref], env)
          IN  [saved EXCEPT !.ioFailed = @ \/ init.ioFailed]

\* Lines 438-467, after the store was initialized if it had to be.
updateAuthDataInitialized(init, uuid, authData, env) ==
    LET S1 == init.store
        accountIndex == FindIndex(S1.accounts, uuid)
    IN  IF ~init.result \/ accountIndex = 0
        THEN [store |-> S1, result |-> FALSE, ioFailed |-> init.ioFailed]
        ELSE
          LET list == [S1.accounts EXCEPT
                          ![accountIndex] = ApplyAuthData(@, authData, env.now)]
              ref == IF /\ S1.activeAccount # 0
                        /\ S1.accounts[S1.activeAccount].uuid = uuid
                     THEN accountIndex ELSE S1.activeAccount
              saved == saveAccounts(
                  [S1 EXCEPT !.accounts = list, !.activeAccount = ref], env)
          IN  [saved EXCEPT !.ioFailed = @ \/ init.ioFailed]

updateAuthData(S, uuid, authData, env) ==
    updateAuthDataInitialized(EnsureInitialized(S, env), uuid, authData, env)

(***************************************************************************)
(* Reads. An optional result (`null` or an object) is a sequence of at most *)
(* one element. The store of a read is an initialized store.                *)
(***************************************************************************)
\* Mutant: the projection keeps the access token.
SafeProjection_Leaks(acc) ==
    [uuid |-> acc.uuid, username |-> acc.username, type |-> acc.type,
     active |-> acc.active, lastUsed |-> acc.lastUsed,
     accessToken |-> acc.accessToken]

\* accounts.js lines 341-347 and 366-372
SafeProjection(acc) ==
    [uuid |-> acc.uuid, username |-> acc.username, type |-> acc.type,
     active |-> acc.active, lastUsed |-> acc.lastUsed]

getAccounts(S) == [i \in 1..Len(S.accounts) |-> SafeProjection(S.accounts[i])]

getActiveAccount(S) ==
    IF S.activeAccount = 0 THEN <<>>
    ELSE <<SafeProjection(S.accounts[S.activeAccount])>>

\* accounts.js lines 415-424
AuthProjection(acc) ==
    [accessToken |-> acc.accessToken, clientToken |-> acc.clientToken,
     uuid |-> acc.uuid, username |-> acc.username,
     refreshToken |-> acc.refreshToken, expiresAt |-> acc.expiresAt,
     profile |-> acc.profile, type |-> acc.type]

\* The reads as the caller sees them: the store is initialized first if it
\* is not, and a failure to do so yields [] (lines 335-350) or null (lines
\* 356-375, 403-427).
Reading(init, value) ==
    [store |-> init.store, result |-> value, ioFailed |-> init.ioFailed]

getAccountsInitialized(init) ==
    Reading(init, IF init.result THEN getAccounts(init.store) ELSE <<>>)

getAccountsLazily(S, env) == getAccountsInitialized(EnsureInitialized(S, env))

getActiveAccountInitialized(init) ==
    Reading(init, IF init.result THEN getActiveAccount(init.store) ELSE <<>>)

getActiveAccountLazily(S, env) ==
    getActiveAccountInitialized(EnsureInitialized(S, env))

\* Mutant: the uuid is ignored, the active account is returned.
getAuthData_IgnoresUuid(S, uuid) ==
    IF S.activeAccount = 0 THEN <<>>
    ELSE <<AuthProjection(S.accounts[S.activeAccount])>>

\* uuid = 0 stands for the call without a uuid.
getAuthData(S, uuid) ==
    LET account == IF uuid # 0 THEN FindIndex(S.accounts, uuid) ELSE S.activeAccount
    IN  IF account = 0 THEN <<>> ELSE <<AuthProjection(S.accounts[account])>>

\* accounts.js lines 401-429: the exported function, which initializes the
\* store if it has to and answers null when that fails.
getAuthDataInitialized(init, uuid) ==
    Reading(init, IF init.result THEN getAuthData(init.store, uuid) ELSE <<>>)

getAuthDataLazily(S, uuid, env) ==
    getAuthDataInitialized(EnsureInitialized(S, env), uuid)

(***************************************************************************)
(* components/auth.js: the provider calls. A call in flight is a record:    *)
(* the function, the request it is suspended on (pc), the response bodies   *)
(* it has collected, the requests it has issued and its outcome (the record *)
(* read from the store at the start is not used after the first request and *)
(* is not kept). A response is what                                         *)
(* fetch settles with: a network failure (fetch rejects), or a status and a *)
(* parsed body. The provider's XErr codes do not fit 32 bits and are kept   *)
(* as strings of digits.                                                    *)
(***************************************************************************)
Err(prefix, text, status) == [prefix |-> prefix, text |-> text, status |-> status]

NoErr == Err("", "", 0)

Pending == [status |-> "pending", error |-> NoErr, value |-> <<>>, valid |-> FALSE]

Resolved(value) ==
    [status |-> "resolved", error |-> NoErr, value |-> value, valid |-> FALSE]

Rejected(prefix, text, status) ==
    [status |-> "rejected", error |-> Err(prefix, text, status), value |-> <<>>,
     valid |-> FALSE]

\* validateToken resolves with a boolean.
Answered(valid) ==
    [status |-> "resolved", error |-> NoErr, value |-> <<>>, valid |-> valid]

IdleFlow ==
    [fn |-> "none", pc |-> "idle", uuid |-> 0, clientId |-> Undefined,
     tokenData |-> <<>>, xblData |-> <<>>, xstsData |-> <<>>,
     minecraftData |-> <<>>, requests |-> <<>>, refresh |-> Pending,
     awaited |-> Pending, outcome |-> Pending]

\* auth.js lines 5-19
ENDPOINTS ==
    [MOJANG |-> [AUTH |-> "authserver.mojang.com/authenticate",
                 VALIDATE |-> "authserver.mojang.com/validate",
                 INVALIDATE |-> "authserver.mojang.com/invalidate"],
     MICROSOFT |-> [AUTH |-> "login.live.com/oauth20_token.srf",
                    XBL |-> "user.auth.xboxlive.com/user/authenticate",
                    XSTS |-> "xsts.auth.xboxlive.com/xsts/authorize",
                    MINECRAFT |-> "api.minecraftservices.com/authentication/login_with_xbox",
                    PROFILE |-> "api.minecraftservices.com/minecraft/profile"]]

\* response.ok
Ok(response) == response.status \in 200..299

NetworkFailure == [net |-> TRUE, status |-> 0, body |-> [none |-> TRUE]]

HttpFailure(status) == [net |-> FALSE, status |-> status, body |-> [none |-> TRUE]]

Success(body) == [net |-> FALSE, status |-> 200, body |-> body]

\* The account-not-linked code of the security-token service, and another
\* code of the same service.
XErrNoXboxAccount == "2148916233"
XErrChildAccount == "2148916238"

\* What each provider endpoint may answer.
TokenResponses ==
    {Success([access_token |-> "ms1", refresh_token |-> "rt3", expires_in |-> 1]),
     HttpFailure(400), NetworkFailure}

XblResponses ==
    {Success([Token |-> "xbl1", uhs |-> "uhs1"]), HttpFailure(401), NetworkFailure}

XstsResponses ==
    {Success([Token |-> "xsts1"]),
     [net |-> FALSE, status |-> 401, body |-> [XErr |-> XErrNoXboxAccount]],
     [net |-> FALSE, status |-> 401, body |-> [XErr |-> XErrChildAccount]],
     NetworkFailure}

MinecraftResponses(tokens) ==
    {Success([access_token |-> t]) : t \in tokens}
      \cup {HttpFailure(403), NetworkFailure}

ProfileResponses(U) ==
    {Success([id |-> u, name |-> "alex", doc |-> "p3"]) : u \in U}
      \cup {HttpFailure(404), HttpFailure(500), NetworkFailure}

ValidateResponses ==
    {[net |-> FALSE, status |-> 204, body |-> [none |-> TRUE]],
     [net |-> FALSE, status |-> 200, body |-> [none |-> TRUE]],
     HttpFailure(403), NetworkFailure}

\* The legacy provider's answers to authenticate: the session with the
\* client token echoed or not and the selected profile there or not, a
\* session without access token, a structured error, an error without
\* message, a network failure.
Session(accessToken, clientToken, selectedProfile) ==
    Success([accessToken |-> accessToken, clientToken |-> clientToken,
             selectedProfile |-> selectedProfile])

AuthenticateResponses(U) ==
    {Session("at5", clientToken, <<[id |-> u, name |-> "steve"]>>) :
         u \in U, clientToken \in {"ct5", Undefined}}
      \cup {Session("at5", "ct5", <<>>), Session(Undefined, "ct5", <<>>)}
      \cup {Session(Undefined, "ct5", <<[id |-> u, name |-> "steve"]>>) : u \in U}
      \cup {[net |-> FALSE, status |-> 403,
             body |-> [errorMessage |-> "Invalid credentials"]],
            [net |-> FALSE, status |-> 500, body |-> [errorMessage |-> Undefined]],
            NetworkFailure}

InvalidateResponses ==
    {[net |-> FALSE, status |-> 204, body |-> [none |-> TRUE]],
     HttpFailure(403), NetworkFailure}

Responses(endpoint, U, tokens) ==
    CASE endpoint = ENDPOINTS.MOJANG.AUTH -> AuthenticateResponses(U)
      [] endpoint = ENDPOINTS.MOJANG.INVALIDATE -> InvalidateResponses
      [] endpoint = ENDPOINTS.MICROSOFT.AUTH -> TokenResponses
      [] endpoint = ENDPOINTS.MICROSOFT.XBL -> XblResponses
      [] endpoint = ENDPOINTS.MICROSOFT.XSTS -> XstsResponses
      [] endpoint = ENDPOINTS.MICROSOFT.MINECRAFT -> MinecraftResponses(tokens)
      [] endpoint = ENDPOINTS.MICROSOFT.PROFILE -> ProfileResponses(U)
      [] endpoint = ENDPOINTS.MOJANG.VALIDATE -> ValidateResponses
      [] OTHER -> {}

\* The readings of Date.now() and the values of uuidv4() and of
\* process.env.MS_CLIENT_ID.
AuthTimes == {1, 3}
ClientTokens == {"ct3"}
ClientIds == {Undefined, "cid"}

\* await fetch(endpoint, ...): the request is issued and the call suspends.
Fetch(f, endpoint, payload) ==
    [f EXCEPT !.pc = endpoint,
              !.requests = Append(@, [endpoint |-> endpoint, payload |-> payload])]

Settle(f, outcome) == [f EXCEPT !.pc = "done", !.outcome = outcome]

\* `await value` on a value that is there already (the result of the
\* synchronous addAccount, lines 64 and 196; the promise of a refresh that
\* has settled, line 356): the call yields and goes on in a later turn,
\* where it settles with `outcome`. The store holds what the step has
\* written while the call is still pending.
Await(f, outcome) == [f EXCEPT !.pc = "await", !.awaited = outcome]

\* One step of a call: the call afterwards, and the store operation the
\* step has run, if any, with its result.
NoStoreCall(S, f) == [flow |-> f, op |-> "none", uuid |-> 0, r |-> Done(S, TRUE)]

StoreCall(f, op, uuid, r) == [flow |-> f, op |-> op, uuid |-> uuid, r |-> r]

\* A step that reads the store through accountManager.getAuthData, which
\* initializes the store if it has to (accounts.js lines 403-407): `init` is
\* the outcome of that initialization.
ReadCall(init, f) ==
    [flow |-> f, op |-> "none", uuid |-> 0,
     r |-> [store |-> init.store, result |-> TRUE, ioFailed |-> init.ioFailed]]

\* The turn in which a call that awaited goes on: lines 65-69, 197-201 and
\* 357-360.
ResumeStep(S, f) == NoStoreCall(S, Settle(f, f.awaited))

(***************************************************************************)
(* microsoftAuthenticateWithCode, auth.js lines 75-205.                     *)
(***************************************************************************)
LoginFailed == "Microsoft authentication failed"

\* Lines 77-97: the checks and the first request.
microsoftAuthenticateWithCode(code, redirectUri, clientId) ==
    LET f == [IdleFlow EXCEPT !.fn = "microsoftAuthenticateWithCode",
                              !.clientId = clientId]
    IN  IF ~Truthy(code) \/ ~Truthy(redirectUri)
        THEN Settle(f, Rejected(LoginFailed,
                 "Authorization code and redirect URI are required", 0))
        ELSE IF ~Truthy(clientId)
        THEN Settle(f, Rejected(LoginFailed,
                 "Microsoft client ID is not configured", 0))
        ELSE Fetch(f, ENDPOINTS.MICROSOFT.AUTH, <<clientId, code, redirectUri>>)

\* Lines 185-194
MicrosoftAuthData(f, profileData, clientToken, now) ==
    [accessToken |-> f.minecraftData[1].access_token,
     clientToken |-> clientToken,
     refreshToken |-> f.tokenData[1].refresh_token,
     expiresAt |-> now + (f.tokenData[1].expires_in * 1000),
     uuid |-> profileData.id,
     username |-> profileData.name,
     profile |-> profileData.doc,
     type |-> "microsoft"]

\* Mutant: hop 3 has no special case for the account-not-linked code.
LoginXstsFailure_Generic(f, response) ==
    Settle(f, Rejected(LoginFailed, "Failed to get XSTS token", response.status))

\* Lines 144-150
LoginXstsFailure(f, response) ==
    IF response.body.XErr = XErrNoXboxAccount
    THEN Settle(f, Rejected(LoginFailed,
             "The Microsoft account does not have an Xbox account", 0))
    ELSE Settle(f, Rejected(LoginFailed, "Failed to get XSTS token", response.status))

\* Mutant: not-found is reported like any other profile failure.
LoginProfileFailure_Generic(f, response) ==
    Settle(f, Rejected(LoginFailed, "Failed to get Minecraft profile", response.status))

\* Lines 176-181
LoginProfileFailure(f, response) ==
    IF response.status = 404
    THEN Settle(f, Rejected(LoginFailed, "You need to buy Minecraft to continue", 0))
    ELSE Settle(f, Rejected(LoginFailed, "Failed to get Minecraft profile",
                            response.status))

\* Mutant: the profile is fetched whatever hop 4 answered.
LoginAfterMinecraft_IgnoresFailure(f, response) ==
    Fetch([f EXCEPT !.minecraftData = <<[access_token |-> Undefined]>>],
          ENDPOINTS.MICROSOFT.PROFILE, <<Undefined>>)

\* Lines 164-174: hop 4 has answered.
LoginAfterMinecraft(f, response) ==
    IF ~Ok(response)
    THEN Settle(f, Rejected(LoginFailed, "Failed to authenticate with Minecraft",
                            response.status))
    ELSE Fetch([f EXCEPT !.minecraftData = <<response.body>>],
               ENDPOINTS.MICROSOFT.PROFILE, <<response.body.access_token>>)

\* The continuation of the call after the response to the request it is
\* suspended on (lines 99-201).
LoginStep(S, f, response, clientToken, now, env) ==
    IF response.net
    THEN NoStoreCall(S, Settle(f, Rejected(LoginFailed, "fetch failed", 0)))
    ELSE CASE f.pc = ENDPOINTS.MICROSOFT.AUTH ->
               NoStoreCall(S,
                 IF ~Ok(response)
                 THEN Settle(f, Rejected(LoginFailed, "Failed to get Microsoft token",
                                         response.status))
                 ELSE Fetch([f EXCEPT !.tokenData = <<response.body>>],
                            ENDPOINTS.MICROSOFT.XBL, <<response.body.access_token>>))
           [] f.pc = ENDPOINTS.MICROSOFT.XBL ->
               NoStoreCall(S,
                 IF ~Ok(response)
                 THEN Settle(f, Rejected(LoginFailed,
                                         "Failed to authenticate with Xbox Live",
                                         response.status))
                 ELSE Fetch([f EXCEPT !.xblData = <<response.body>>],
                            ENDPOINTS.MICROSOFT.XSTS, <<response.body.Token>>))
           [] f.pc = ENDPOINTS.MICROSOFT.XSTS ->
               NoStoreCall(S,
                 IF ~Ok(response)
                 THEN LoginXstsFailure(f, response)
                 ELSE Fetch([f EXCEPT !.xstsData = <<response.body>>],
                            ENDPOINTS.MICROSOFT.MINECRAFT,
                            <<f.xblData[1].uhs, response.body.Token>>))
           [] f.pc = ENDPOINTS.MICROSOFT.MINECRAFT ->
               NoStoreCall(S, LoginAfterMinecraft(f, response))
           [] f.pc = ENDPOINTS.MICROSOFT.PROFILE ->
               IF ~Ok(response)
               THEN NoStoreCall(S, LoginProfileFailure(f, response))
               ELSE LET authData == MicrosoftAuthData(f, response.body, clientToken, now)
                        added == addAccount(S, authData, env)
                    IN  StoreCall(
                            Await(f, IF added.result
                                     THEN Resolved(<<authData>>)
                                     ELSE Rejected(LoginFailed,
                                                   "Failed to save account", 0)),
                            "addAccount", authData.uuid, added)

(***************************************************************************)
(* microsoftGenerateAuthUrl, auth.js lines 207-231.                         *)
(***************************************************************************)
microsoftGenerateAuthUrl(redirectUri, clientId, state) ==
    LET f == [IdleFlow EXCEPT !.fn = "microsoftGenerateAuthUrl",
                              !.clientId = clientId]
    IN  IF ~Truthy(clientId)
        THEN Settle(f, Rejected("Failed to generate Microsoft auth URL",
                                "Microsoft client ID is not configured", 0))
        ELSE Settle(f, Resolved(
                 <<[url |-> <<"login.live.com/oauth20_authorize.srf", clientId,
                              "code", redirectUri,
                              "XboxLive.signin offline_access", state>>,
                    state |-> state]>>))

(***************************************************************************)
(* refreshMicrosoftToken, auth.js lines 233-340, on its own or as the       *)
(* refresh path of validateToken (line 356).                                *)
(***************************************************************************)
RefreshFailed == "Token refresh failed"

\* How a refresh that settles ends the call: refreshMicrosoftToken settles
\* as the refresh did; validateToken, which awaits the refresh (line 356),
\* goes on in a later turn, where it answers true or false (lines 357-360).
SettleRefresh(f, outcome) ==
    IF f.fn = "validateToken"
    THEN [Await(f, Answered(outcome.status = "resolved")) EXCEPT !.refresh = outcome]
    ELSE [Settle(f, outcome) EXCEPT !.refresh = outcome]

\* Mutant: the client id is looked at before the stored record.
RefreshStart_ClientIdFirst(S, f, uuid, clientId, env) ==
    LET read == getAuthDataLazily(S, uuid, env)
        authData == read.result
        g == [f EXCEPT !.uuid = uuid, !.clientId = clientId]
    IN  ReadCall(read,
            IF ~Truthy(clientId)
            THEN SettleRefresh(g, Rejected(RefreshFailed,
                     "Microsoft client ID is not configured", 0))
            ELSE IF authData = <<>> \/ ~Truthy(authData[1].refreshToken)
            THEN SettleRefresh(g, Rejected(RefreshFailed, "No refresh token available", 0))
            ELSE Fetch(g, ENDPOINTS.MICROSOFT.AUTH, <<clientId, authData[1].refreshToken>>))

\* Mutant: a record without a refresh token is refreshed with the access
\* token.
RefreshStart_NoTokenCheck(S, f, uuid, clientId, env) ==
    LET read == getAuthDataLazily(S, uuid, env)
        authData == read.result
        g == [f EXCEPT !.uuid = uuid, !.clientId = clientId]
    IN  ReadCall(read,
            IF authData = <<>>
            THEN SettleRefresh(g, Rejected(RefreshFailed, "No refresh token available", 0))
            ELSE IF ~Truthy(clientId)
            THEN SettleRefresh(g, Rejected(RefreshFailed,
                     "Microsoft client ID is not configured", 0))
            ELSE Fetch(g, ENDPOINTS.MICROSOFT.AUTH, <<clientId, authData[1].accessToken>>))

\* Lines 235-256: the stored record, the checks and the first request.
RefreshStart(S, f, uuid, clientId, env) ==
    LET read == getAuthDataLazily(S, uuid, env)
        authData == read.result
        g == [f EXCEPT !.uuid = uuid, !.clientId = clientId]
    IN  ReadCall(read,
            IF authData = <<>> \/ ~Truthy(authData[1].refreshToken)
            THEN SettleRefresh(g, Rejected(RefreshFailed, "No refresh token available", 0))
            ELSE IF ~Truthy(clientId)
            THEN SettleRefresh(g, Rejected(RefreshFailed,
                     "Microsoft client ID is not configured", 0))
            ELSE Fetch(g, ENDPOINTS.MICROSOFT.AUTH, <<clientId, authData[1].refreshToken>>))

refreshMicrosoftToken(S, uuid, clientId, env) ==
    RefreshStart(S, [IdleFlow EXCEPT !.fn = "refreshMicrosoftToken"], uuid, clientId,
                 env)

\* Mutant: the refresh writes the profile property as well.
UpdatedAuthData_WithProfile(f, minecraftData, now) ==
    [accessToken |-> minecraftData.access_token,
     refreshToken |-> f.tokenData[1].refresh_token,
     expiresAt |-> now + (f.tokenData[1].expires_in * 1000),
     profile |-> "p3"]

\* Lines 325-329; the record has no profile property.
UpdatedAuthData(f, minecraftData, now) ==
    [accessToken |-> minecraftData.access_token,
     refreshToken |-> f.tokenData[1].refresh_token,
     expiresAt |-> now + (f.tokenData[1].expires_in * 1000),
     profile |-> Undefined]

\* The continuation of the refresh after a response (lines 258-336).
RefreshStep(S, f, response, now, env) ==
    IF response.net
    THEN NoStoreCall(S, SettleRefresh(f, Rejected(RefreshFailed, "fetch failed", 0)))
    ELSE CASE f.pc = ENDPOINTS.MICROSOFT.AUTH ->
               NoStoreCall(S,
                 IF ~Ok(response)
                 THEN SettleRefresh(f, Rejected(RefreshFailed, "Failed to refresh token",
                                                response.status))
                 ELSE Fetch([f EXCEPT !.tokenData = <<response.body>>],
                            ENDPOINTS.MICROSOFT.XBL, <<response.body.access_token>>))
           [] f.pc = ENDPOINTS.MICROSOFT.XBL ->
               NoStoreCall(S,
                 IF ~Ok(response)
                 THEN SettleRefresh(f, Rejected(RefreshFailed,
                                                "Failed to authenticate with Xbox Live",
                                                response.status))
                 ELSE Fetch([f EXCEPT !.xblData = <<response.body>>],
                            ENDPOINTS.MICROSOFT.XSTS, <<response.body.Token>>))
           [] f.pc = ENDPOINTS.MICROSOFT.XSTS ->
               NoStoreCall(S,
                 IF ~Ok(response)
                 THEN SettleRefresh(f, Rejected(RefreshFailed, "Failed to get XSTS token",
                                                response.status))
                 ELSE Fetch([f EXCEPT !.xstsData = <<response.body>>],
                            ENDPOINTS.MICROSOFT.MINECRAFT,
                            <<f.xblData[1].uhs, response.body.Token>>))
           [] f.pc = ENDPOINTS.MICROSOFT.MINECRAFT ->
               IF ~Ok(response)
               THEN NoStoreCall(S, SettleRefresh(f,
                        Rejected(RefreshFailed, "Failed to authenticate with Minecraft",
                                 response.status)))
               ELSE LET updatedAuthData == UpdatedAuthData(f, response.body, now)
                        updated == updateAuthData(S, f.uuid, updatedAuthData, env)
                    IN  StoreCall(
                            SettleRefresh(
                                [f EXCEPT !.minecraftData = <<response.body>>],
                                IF updated.result
                                THEN Resolved(getAuthData(updated.store, f.uuid))
                                ELSE Rejected(RefreshFailed,
                                              "Failed to update account auth data", 0)),
                            "updateAuthData", f.uuid, updated)

(***************************************************************************)
(* validateToken, auth.js lines 342-378. uuid = 0 is the call without uuid. *)
(***************************************************************************)
\* Mutant: a federated token is refreshed whatever its expiry.
NotExpired_Never(authData, now) == FALSE

\* Line 351
NotExpired(authData, now) == authData.expiresAt # 0 /\ authData.expiresAt > now

\* Mutant: any success status counts as valid.
ValidAnswer_AnyOk(response) == Ok(response)

\* Line 373
ValidAnswer(response) == response.status = 204

\* Lines 344-371: up to the answer or the first request.
validateToken(S, uuid, clientId, now, env) ==
    LET read == getAuthDataLazily(S, uuid, env)
        authData == read.result
        f == [IdleFlow EXCEPT !.fn = "validateToken", !.uuid = uuid,
                              !.clientId = clientId]
    IN  IF authData = <<>> THEN ReadCall(read, Settle(f, Answered(FALSE)))
        ELSE IF authData[1].type = "microsoft"
        THEN IF NotExpired(authData[1], now)
             THEN ReadCall(read, Settle(f, Answered(TRUE)))
             ELSE RefreshStart(read.store, f, authData[1].uuid, clientId, env)
        ELSE ReadCall(read,
                 Fetch(f, ENDPOINTS.MOJANG.VALIDATE,
                       <<authData[1].accessToken, authData[1].clientToken>>))

\* Lines 356-377: the continuation after a response.
ValidateStep(S, f, response, now, env) ==
    IF f.pc = ENDPOINTS.MOJANG.VALIDATE
    THEN NoStoreCall(S, Settle(f, Answered(~response.net /\ ValidAnswer(response))))
    ELSE RefreshStep(S, f, response, now, env)

(***************************************************************************)
(* mojangAuthenticate, auth.js lines 21-73.                                 *)
(***************************************************************************)
MojangFailed == "Mojang authentication failed"

\* Lines 23-43: the check and the request, with the client token of
\* crypto.randomBytes(16).
mojangAuthenticate(username, password, clientToken) ==
    LET f == [IdleFlow EXCEPT !.fn = "mojangAuthenticate"]
    IN  IF ~Truthy(username) \/ ~Truthy(password)
        THEN Settle(f, Rejected(MojangFailed, "Username and password are required", 0))
        ELSE Fetch(f, ENDPOINTS.MOJANG.AUTH, <<username, password, clientToken>>)

\* Lines 56-62; the record has no refreshToken, expiresAt or profile.
MojangAuthData(f, data) ==
    [accessToken |-> data.accessToken,
     clientToken |-> data.clientToken,
     uuid |-> data.selectedProfile[1].id,
     username |-> data.selectedProfile[1].name,
     type |-> "mojang",
     refreshToken |-> Undefined, expiresAt |-> 0, profile |-> Undefined]

\* Lines 45-71: the continuation after the response.
MojangStep(S, f, response, env) ==
    IF response.net
    THEN NoStoreCall(S, Settle(f, Rejected(MojangFailed, "fetch failed", 0)))
    ELSE IF ~Ok(response)
    THEN NoStoreCall(S, Settle(f,
             IF Truthy(response.body.errorMessage)
             THEN Rejected(MojangFailed, response.body.errorMessage, 0)
             ELSE Rejected(MojangFailed, "Error", response.status)))
    ELSE IF ~Truthy(response.body.accessToken)
    THEN NoStoreCall(S, Settle(f, Rejected(MojangFailed,
                                           "Invalid authentication response", 0)))
    ELSE IF response.body.selectedProfile = <<>>
    THEN NoStoreCall(S, Settle(f, Rejected(MojangFailed,
                                           "Cannot read properties of undefined", 0)))
    ELSE LET authData == MojangAuthData(f, response.body)
             added == addAccount(S, authData, env)
         IN  StoreCall(
                 Await(f, IF added.result
                          THEN Resolved(<<authData>>)
                          ELSE Rejected(MojangFailed, "Failed to save account", 0)),
                 "addAccount", authData.uuid, added)

(***************************************************************************)
(* logoutAccount, auth.js lines 380-410. uuid = 0 is the call without uuid. *)
(***************************************************************************)
\* Mutant: the removal takes the account that is active when it runs.
LogoutRemoves_ActiveNow(S, f, env) ==
    LET uuid == IF S.activeAccount = 0 THEN f.uuid
                ELSE S.accounts[S.activeAccount].uuid
        removed == removeAccount(S, uuid, env)
    IN  StoreCall(Settle(f, Answered(removed.result)), "removeAccount", uuid,
                  removed)

\* Line 405: the removal, whose result the call returns.
LogoutRemoves(S, f, env) ==
    LET removed == removeAccount(S, f.uuid, env)
    IN  StoreCall(Settle(f, Answered(removed.result)), "removeAccount", f.uuid,
                  removed)

\* Lines 382-405: up to the invalidate request of a legacy account, or to
\* the end for any other account. The call keeps the uuid of the record it
\* has read.
logoutAccount(S, uuid, env) ==
    LET read == getAuthDataLazily(S, uuid, env)
        authData == read.result
        f == [IdleFlow EXCEPT !.fn = "logoutAccount", !.uuid = uuid]
    IN  IF authData = <<>> THEN ReadCall(read, Settle(f, Answered(FALSE)))
        ELSE IF authData[1].type = "mojang"
        THEN ReadCall(read,
                 Fetch([f EXCEPT !.uuid = authData[1].uuid],
                       ENDPOINTS.MOJANG.INVALIDATE,
                       <<authData[1].accessToken, authData[1].clientToken>>))
        ELSE LogoutRemoves(read.store, [f EXCEPT !.uuid = authData[1].uuid], env)

\* Mutant: a request that fails ends the call without removal.
LogoutStep_StopsOnFailure(S, f, response, env) ==
    IF response.net \/ ~Ok(response)
    THEN NoStoreCall(S, Settle(f, Answered(FALSE)))
    ELSE LogoutRemoves(S, f, env)

\* Lines 389-405: the response is not looked at and a rejected fetch is
\* caught; the removal follows.
LogoutStep(S, f, response, env) == LogoutRemoves(S, f, env)

(***************************************************************************)
(* The state machine. Init is the state once the module is loaded on a      *)
(* fresh storage location: line 474 has run initializeAccountStorage.       *)
(***************************************************************************)
Unloaded ==
    [accounts |-> <<>>, activeAccount |-> 0,
     storageConfig |-> [type |-> "file", location |-> "home",
                        electronStore |-> FALSE, customHandler |-> NoHandler,
                        initialized |-> FALSE],
     encryptionKey |-> NoKey, disk |-> FreshMedia]

NoCall == [op |-> "load", uuid |-> 0, result |-> TRUE, existed |-> FALSE,
           wasActive |-> FALSE, flagged |-> 0]

\* The environment of Spec: the clock stands still and every write of the
\* storage backend is accepted.
StoreEnvs == EnvsOf({1}, {"k1"}, {TRUE})

Init ==
    \E env \in StoreEnvs :
      LET loaded == initializeAccountStorage(Unloaded, env)
      IN  /\ accounts = loaded.store.accounts
          /\ activeAccount = loaded.store.activeAccount
          /\ storageConfig = loaded.store.storageConfig
          /\ encryptionKey = loaded.store.encryptionKey
          /\ disk = loaded.store.disk
          /\ failures = 0
          /\ last = NoCall
          /\ emptied = FALSE
          /\ returned = <<>>
          /\ flow = IdleFlow
          /\ racing = IdleFlow
          /\ versions = NoVersions
          /\ clock = 1

Flagged(accs) == {i \in 1..Len(accs) : accs[i].active}

\* What the call found: was the uuid stored, was it the active account's,
\* and how many accounts were flagged active.
Call(op, uuid, r) ==
    [op |-> op, uuid |-> uuid, result |-> r.result,
     existed |-> FindIndex(accounts, uuid) # 0,
     wasActive |-> activeAccount # 0 /\ accounts[activeAccount].uuid = uuid,
     flagged |-> Cardinality(Flagged(accounts))]

\* The result of the call is computed once and bound.
Commit(op, uuid, result) ==
  \E r \in {result} :
    /\ r.ioFailed => failures < MaxWriteFailures
    /\ accounts' = r.store.accounts
    /\ activeAccount' = r.store.activeAccount
    /\ storageConfig' = r.store.storageConfig
    /\ encryptionKey' = r.store.encryptionKey
    /\ disk' = r.store.disk
    /\ failures' = IF r.ioFailed THEN failures + 1 ELSE failures
    /\ last' = Call(op, uuid, r)
    /\ UNCHANGED <<versions, clock>>
    /\ emptied' = (emptied \/ (op = "removeAccount" /\ Len(accounts) > 0
                                 /\ Len(r.store.accounts) = 0))

AddAccountStep(authData, env) ==
    /\ Commit("addAccount", UuidOf(authData), addAccount(Store, authData, env))
    /\ returned' = <<>>
    /\ UNCHANGED <<flow, racing, versions, clock>>

RemoveAccountStep(uuid, env) ==
    /\ Commit("removeAccount", uuid, removeAccount(Store, uuid, env))
    /\ returned' = <<>>
    /\ UNCHANGED <<flow, racing, versions, clock>>

SetActiveAccountStep(uuid, env) ==
    /\ Commit("setActiveAccount", uuid, setActiveAccount(Store, uuid, env))
    /\ returned' = <<>>
    /\ UNCHANGED <<flow, racing, versions, clock>>

UpdateAuthDataStep(uuid, authData, env) ==
    /\ Commit("updateAuthData", uuid, updateAuthData(Store, uuid, authData, env))
    /\ returned' = <<>>
    /\ UNCHANGED <<flow, racing, versions, clock>>

\* getAuthData as the caller sees it (accounts.js lines 401-429): the store
\* is initialized first if it is not, and a failure to do so yields null.
GetAuthDataStep(uuid, env) ==
    LET init == EnsureInitialized(Store, env)
        authData == IF init.result THEN getAuthData(init.store, uuid) ELSE <<>>
    IN  /\ Commit("getAuthData", uuid,
                  [store |-> init.store, result |-> authData # <<>>,
                   ioFailed |-> init.ioFailed])
        /\ returned' = authData
        /\ UNCHANGED <<flow, racing, versions, clock>>

\* A step of a call of auth.js: its record, and the store operation the
\* step has run, if it has run one.
StoreCommit(x) ==
    /\ returned' = <<>>
    /\ IF x.op = "none"
       THEN /\ x.r.ioFailed => failures < MaxWriteFailures
            /\ accounts' = x.r.store.accounts
            /\ activeAccount' = x.r.store.activeAccount
            /\ storageConfig' = x.r.store.storageConfig
            /\ encryptionKey' = x.r.store.encryptionKey
            /\ disk' = x.r.store.disk
            /\ failures' = IF x.r.ioFailed THEN failures + 1 ELSE failures
            /\ UNCHANGED <<last, emptied, versions, clock>>
       ELSE Commit(x.op, x.uuid, x.r)

FlowCommit(step) ==
  \E x \in {step} :
    /\ flow' = x.flow
    /\ racing' = racing
    /\ StoreCommit(x)

\* The step of the second call: the same continuation, run on the store as
\* the first call's steps have left it, while the first call stays where it
\* awaits.
RacingCommit(step) ==
  \E x \in {step} :
    /\ racing' = x.flow
    /\ flow' = flow
    /\ StoreCommit(x)

\* No call of auth.js is in flight.
Settled == flow.pc \in {"idle", "done"}

\* The call is suspended on a request.
Suspended(f) == f.pc \notin {"idle", "done", "await"}

\* The call that awaited a value it had already goes on.
ResumesStep ==
    /\ flow.pc = "await"
    /\ FlowCommit(ResumeStep(Store, flow))

RacingResumesStep ==
    /\ racing.pc = "await"
    /\ RacingCommit(ResumeStep(Store, racing))

StartLoginStep(code, redirectUri, clientId) ==
    /\ Settled
    /\ FlowCommit(NoStoreCall(Store,
           microsoftAuthenticateWithCode(code, redirectUri, clientId)))

StartGenerateAuthUrlStep(redirectUri, clientId, state) ==
    /\ Settled
    /\ FlowCommit(NoStoreCall(Store,
           microsoftGenerateAuthUrl(redirectUri, clientId, state)))

StartRefreshStep(uuid, clientId, env) ==
    /\ Settled
    /\ FlowCommit(refreshMicrosoftToken(Store, uuid, clientId, env))

StartValidateStep(uuid, clientId, now, env) ==
    /\ Settled
    /\ FlowCommit(validateToken(Store, uuid, clientId, now, env))

LoginRespondsStep(response, clientToken, now, env) ==
    /\ flow.fn = "microsoftAuthenticateWithCode" /\ Suspended(flow)
    /\ FlowCommit(LoginStep(Store, flow, response, clientToken, now, env))

RefreshRespondsStep(response, now, env) ==
    /\ flow.fn = "refreshMicrosoftToken" /\ Suspended(flow)
    /\ FlowCommit(RefreshStep(Store, flow, response, now, env))

ValidateRespondsStep(response, now, env) ==
    /\ flow.fn = "validateToken" /\ Suspended(flow)
    /\ FlowCommit(ValidateStep(Store, flow, response, now, env))

StartMojangStep(username, password, clientToken) ==
    /\ Settled
    /\ FlowCommit(NoStoreCall(Store, mojangAuthenticate(username, password, clientToken)))

MojangRespondsStep(response, env) ==
    /\ flow.fn = "mojangAuthenticate" /\ Suspended(flow)
    /\ FlowCommit(MojangStep(Store, flow, response, env))

StartLogoutStep(uuid, env) ==
    /\ Settled
    /\ FlowCommit(logoutAccount(Store, uuid, env))

LogoutRespondsStep(response, env) ==
    /\ flow.fn = "logoutAccount" /\ Suspended(flow)
    /\ FlowCommit(LogoutStep(Store, flow, response, env))

AddAccount ==
    \E authData \in AuthInputs(UUIDs), env \in StoreEnvs : AddAccountStep(authData, env)

RemoveAccount ==
    \E uuid \in UUIDs, env \in StoreEnvs : RemoveAccountStep(uuid, env)

SetActiveAccount ==
    \E uuid \in UUIDs, env \in StoreEnvs : SetActiveAccountStep(uuid, env)

Next == RemoveAccount \/ SetActiveAccount \/ AddAccount

Spec == Init /\ [][Next]_vars

(***************************************************************************)
(* SpecUpdate: the four mutators, updateAuthData included, called with the  *)
(* uuids 1..NumUuids-1.                                                     *)
(***************************************************************************)
FewUuids == 1..(NumUuids - 1)

AddAccountFew ==
    \E authData \in AuthInputs(FewUuids), env \in StoreEnvs :
      AddAccountStep(authData, env)

RemoveAccountFew ==
    \E uuid \in FewUuids, env \in StoreEnvs : RemoveAccountStep(uuid, env)

SetActiveAccountFew ==
    \E uuid \in FewUuids, env \in StoreEnvs : SetActiveAccountStep(uuid, env)

UpdateAuthDataFew ==
    \E uuid \in FewUuids, authData \in {RefreshedAuth}, env \in StoreEnvs :
      UpdateAuthDataStep(uuid, authData, env)

NextUpdate ==
    AddAccountFew \/ RemoveAccountFew \/ SetActiveAccountFew \/ UpdateAuthDataFew

SpecUpdate == Init /\ [][NextUpdate]_vars

(***************************************************************************)
(* SpecPartial: logins, removals, updateAuthData with every kind of partial  *)
(* record and getAuthData, for stored and for unknown uuids.                *)
(***************************************************************************)
\* The logins: a legacy account and a federated one.
LoginAuth ==
    \E authData \in {LegacyAuth(1), FederatedAuth(2)}, env \in StoreEnvs :
      AddAccountStep(authData, env)

UpdateAuthDataPartial ==
    \E uuid \in FewUuids, authData \in PartialInputs, env \in StoreEnvs :
      UpdateAuthDataStep(uuid, authData, env)

\* getAuthData(uuid) and getAuthData()
GetAuthData ==
    \E uuid \in FewUuids \cup {0}, env \in StoreEnvs : GetAuthDataStep(uuid, env)

NextPartial == LoginAuth \/ RemoveAccountFew \/ UpdateAuthDataPartial \/ GetAuthData

SpecPartial == Init /\ [][NextPartial]_vars

(***************************************************************************)
(* The calls of auth.js, one in flight at a time, with logins and           *)
(* removals of the store running while a call is suspended on a request.    *)
(***************************************************************************)
Codes == {"", "code1"}
RedirectUris == {"uri1"}

StartLogin ==
    \E code \in Codes, redirectUri \in RedirectUris, clientId \in ClientIds :
      StartLoginStep(code, redirectUri, clientId)

StartGenerateAuthUrl ==
    \E redirectUri \in RedirectUris, clientId \in ClientIds :
      StartGenerateAuthUrlStep(redirectUri, clientId, "state1")

StartRefresh ==
    \E uuid \in FewUuids, clientId \in ClientIds, env \in StoreEnvs :
      StartRefreshStep(uuid, clientId, env)

StartValidate ==
    \E uuid \in FewUuids \cup {0}, clientId \in ClientIds, now \in AuthTimes :
      \E env \in StoreEnvs : StartValidateStep(uuid, clientId, now, env)

LoginResponds ==
    \E response \in Responses(flow.pc, FewUuids, {"at3"}), clientToken \in ClientTokens,
       now \in AuthTimes, env \in StoreEnvs :
      LoginRespondsStep(response, clientToken, now, env)

RefreshResponds ==
    \E response \in Responses(flow.pc, FewUuids, {"at3", "at4"}),
       now \in AuthTimes, env \in StoreEnvs :
      RefreshRespondsStep(response, now, env)

ValidateResponds ==
    \E response \in Responses(flow.pc, FewUuids, {"at3", "at4"}),
       now \in AuthTimes, env \in StoreEnvs :
      ValidateRespondsStep(response, now, env)

\* SpecLogin: the code exchange and the authorization url.
NextLogin ==
    \/ LoginAuth \/ RemoveAccountFew
    \/ StartLogin \/ StartGenerateAuthUrl \/ LoginResponds \/ ResumesStep

SpecLogin == Init /\ [][NextLogin]_vars

\* A federated account stored without an expiry.
LoginNoExpiry ==
    \E env \in StoreEnvs :
      AddAccountStep([FederatedAuth(2) EXCEPT !.expiresAt = 0], env)

\* SpecRefresh: refreshMicrosoftToken and validateToken.
NextRefresh ==
    \/ LoginAuth \/ LoginNoExpiry \/ RemoveAccountFew
    \/ StartRefresh \/ StartValidate \/ RefreshResponds \/ ValidateResponds
    \/ ResumesStep

SpecRefresh == Init /\ [][NextRefresh]_vars

\* SpecUnconfigured: the three operations that need the OAuth client id, in
\* a process whose environment has no MS_CLIENT_ID.
StartLoginUnconfigured ==
    \E code \in Codes, redirectUri \in RedirectUris :
      StartLoginStep(code, redirectUri, Undefined)

StartGenerateAuthUrlUnconfigured ==
    \E redirectUri \in RedirectUris :
      StartGenerateAuthUrlStep(redirectUri, Undefined, "state1")

StartRefreshUnconfigured ==
    \E uuid \in FewUuids, env \in StoreEnvs : StartRefreshStep(uuid, Undefined, env)

NextUnconfigured ==
    \/ LoginAuth \/ RemoveAccountFew
    \/ StartLoginUnconfigured \/ StartGenerateAuthUrlUnconfigured
    \/ StartRefreshUnconfigured

SpecUnconfigured == Init /\ [][NextUnconfigured]_vars

(***************************************************************************)
(* SpecLifecycle: validateToken and logoutAccount, on a backend that may    *)
(* refuse a write (at most MaxWriteFailures of them).                       *)
(***************************************************************************)
FaultyEnvs == EnvsOf({1}, {"k1"}, BOOLEAN)

StartLogout ==
    \E uuid \in FewUuids \cup {0}, env \in FaultyEnvs : StartLogoutStep(uuid, env)

LogoutResponds ==
    \E response \in Responses(flow.pc, FewUuids, {"at3"}), env \in FaultyEnvs :
      LogoutRespondsStep(response, env)

NextLifecycle ==
    \/ LoginAuth \/ RemoveAccountFew
    \/ StartValidate \/ ValidateResponds \/ StartLogout \/ LogoutResponds
    \/ ResumesStep

SpecLifecycle == Init /\ [][NextLifecycle]_vars

(***************************************************************************)
(* SpecLegacy: the legacy login, with logins and removals of the store      *)
(* running while the call is suspended on its request.                      *)
(***************************************************************************)
Usernames == {"", "steve"}
Passwords == {"pw"}

StartMojang ==
    \E username \in Usernames, password \in Passwords, clientToken \in ClientTokens :
      StartMojangStep(username, password, clientToken)

MojangResponds ==
    \E response \in Responses(flow.pc, FewUuids, {"at5"}), env \in StoreEnvs :
      MojangRespondsStep(response, env)

NextLegacy ==
    \/ LoginAuth \/ RemoveAccountFew
    \/ StartMojang \/ MojangResponds \/ ResumesStep

SpecLegacy == Init /\ [][NextLegacy]_vars

(***************************************************************************)
(* SpecStorage: the module is loaded on media an earlier run, or something  *)
(* else, has written, the directory may refuse to be made, and the backend  *)
(* is reconfigured between the calls.                                       *)
(***************************************************************************)
\* The list an earlier run at this location has saved under this key.
SavedList(authData) == JSONstringify(<<NewAccount(authData, 1)>>)

Saved(key, blob) == [dir |-> TRUE, key |-> key, blob |-> <<blob>>]

\* What the default location may hold when the module is loaded: nothing;
\* the key and the list of an earlier run; that list under another key;
\* the list with the tag or the ciphertext of another list; a file that is
\* no JSON text; the list without its key file.
PriorHomes ==
    LET blob == encrypt(SavedList(LegacyAuth(1)), "k1", "iv1")
        other == encrypt(SavedList(LegacyAuth(2)), "k1", "iv1")
    IN  {EmptyDisk,
         Saved("k1", blob),
         Saved("k1", encrypt(SavedList(LegacyAuth(1)), "k2", "iv1")),
         Saved("k1", [blob EXCEPT !.authTag = other.authTag]),
         Saved("k1", [blob EXCEPT !.encrypted = other.encrypted]),
         Saved("k1", NotJson),
         Saved(NoKey, blob)}

PriorAlts ==
    {EmptyDisk, Saved("k2", encrypt(SavedList(FederatedAuth(2)), "k2", "iv1"))}

\* The module is being required: line 474 has not run yet.
Requiring == [NoCall EXCEPT !.op = "require"]

InitStorage ==
    \E home \in PriorHomes, alt \in PriorAlts :
      /\ accounts = Unloaded.accounts
      /\ activeAccount = Unloaded.activeAccount
      /\ storageConfig = Unloaded.storageConfig
      /\ encryptionKey = Unloaded.encryptionKey
      /\ disk = [FreshMedia EXCEPT !.home = home, !.alt = alt]
      /\ failures = 0
      /\ last = Requiring
      /\ emptied = FALSE
      /\ returned = <<>>
      /\ flow = IdleFlow
      /\ racing = IdleFlow
      /\ versions = NoVersions
      /\ clock = 1

\* The environments: a new key is like no other key, and mkdirSync may
\* throw.
StorageEnvs ==
    {[env EXCEPT !.mkdirOk = ok] :
        env \in {e \in EnvsOf({1}, {"k3"}, {TRUE}) : e.iv = "iv2"}, ok \in BOOLEAN}

\* The configurations: none of the properties (the backend is loaded
\* again), another location, the default location, the memory, the
\* electron store.
Configs ==
    {Config("bogus", Undefined, FALSE), Config(Undefined, "alt", FALSE),
     Config("file", "home", FALSE), Config("memory", Undefined, FALSE),
     Config("electron", Undefined, TRUE)}

\* Line 474
LoadStep(env) ==
    /\ last.op = "require"
    /\ Commit("load", 0, initializeAccountStorage(Store, env))
    /\ returned' = <<>>
    /\ UNCHANGED <<flow, racing, versions, clock>>

ConfigureStorageStep(config, env) ==
    /\ last.op # "require"
    /\ Commit("configureStorage", 0, configureStorage(Store, config, env))
    /\ returned' = <<>>
    /\ UNCHANGED <<flow, racing, versions, clock>>

GetAccountsStep(env) ==
    /\ last.op # "require"
    /\ \E read \in {getAccountsLazily(Store, env)} :
         /\ Commit("getAccounts", 0, [read EXCEPT !.result = TRUE])
         /\ returned' = read.result
    /\ UNCHANGED <<flow, racing, versions, clock>>

GetActiveAccountStep(env) ==
    /\ last.op # "require"
    /\ \E read \in {getActiveAccountLazily(Store, env)} :
         /\ Commit("getActiveAccount", 0, [read EXCEPT !.result = TRUE])
         /\ returned' = read.result
    /\ UNCHANGED <<flow, racing, versions, clock>>

Load == \E env \in StorageEnvs : LoadStep(env)

ConfigureStorage ==
    \E config \in Configs, env \in StorageEnvs : ConfigureStorageStep(config, env)

GetAccounts == \E env \in StorageEnvs : GetAccountsStep(env)

GetActiveAccount == \E env \in StorageEnvs : GetActiveAccountStep(env)

AddAccountLoaded ==
    /\ last.op # "require"
    /\ \E authData \in {LegacyAuth(1)}, env \in StorageEnvs :
         AddAccountStep(authData, env)

RemoveAccountLoaded ==
    /\ last.op # "require"
    /\ \E uuid \in {1}, env \in StorageEnvs : RemoveAccountStep(uuid, env)

\* A call of auth.js on a store the load has left uninitialized: its read
\* of the record (auth.js line 235) initializes the store.
StartRefreshLoaded ==
    /\ last.op # "require"
    /\ ~storageConfig.initialized
    /\ \E uuid \in {1}, env \in StorageEnvs : StartRefreshStep(uuid, "cid", env)

NextStorage ==
    \/ Load \/ ConfigureStorage \/ GetAccounts \/ GetActiveAccount
    \/ AddAccountLoaded \/ RemoveAccountLoaded \/ StartRefreshLoaded

SpecStorage == InitStorage /\ [][NextStorage]_vars

(***************************************************************************)
(* The claims.                                                              *)
(***************************************************************************)
UuidIsStored(uuid) == \E i \in 1..Len(accounts) : accounts[i].uuid = uuid

ActiveUuid == IF activeAccount = 0 THEN 0 ELSE accounts[activeAccount].uuid

\* C1: in every state reachable from the empty store by addAccount,
\* removeAccount and setActiveAccount, at most one account of the list has
\* active = true.
C1_AtMostOneActive == Cardinality(Flagged(accounts)) <= 1

\* C2: after every successful addAccount(r), the record with r's uuid is
\* flagged active and every other stored record is not, whether the uuid was
\* new or already stored.
C2_AddedIsTheOnlyActive ==
    (last.op = "addAccount" /\ last.result) =>
        \A i \in 1..Len(accounts) :
            accounts[i].active <=> (accounts[i].uuid = last.uuid)

\* C3: addAccount with a uuid that is already stored puts the new record's
\* fields at the index of the stored record, keeps the length of the list and
\* the order of the other records, and appends nothing.
C3_ReplacesInPlace ==
    [][\A authData \in ValidAuthInputs(UUIDs), env \in StoreEnvs :
         (/\ last'.op = "addAccount" /\ last'.uuid = authData.uuid
          /\ UuidIsStored(authData.uuid)
          /\ AddAccountStep(authData, env)) =>
            LET k == CHOOSE i \in 1..Len(accounts) : accounts[i].uuid = authData.uuid
            IN  /\ Len(accounts') = Len(accounts)
                /\ accounts'[k].uuid = authData.uuid
                /\ accounts'[k].username = authData.username
                /\ accounts'[k].accessToken = authData.accessToken
                /\ accounts'[k].clientToken = authData.clientToken
                /\ accounts'[k].type =
                       (IF authData.type = Undefined THEN "mojang" ELSE authData.type)
                /\ accounts'[k].refreshToken =
                       (IF authData.refreshToken = Undefined THEN Null
                        ELSE authData.refreshToken)
                /\ accounts'[k].expiresAt = authData.expiresAt
                /\ accounts'[k].profile =
                       (IF authData.profile = Undefined THEN Null ELSE authData.profile)
                /\ accounts'[k].lastUsed = env.now
                /\ \A i \in 1..Len(accounts) :
                       i # k => accounts'[i].uuid = accounts[i].uuid
      ]_vars

\* C3's case: a federated login has replaced the first of three records.
C3_Witness ==
    /\ last.op = "addAccount" /\ last.result /\ last.existed
    /\ Len(accounts) = 3
    /\ accounts[1].uuid = last.uuid
    /\ accounts[1].type = "microsoft"

\* C4: in every state reachable from the empty store by addAccount,
\* removeAccount, setActiveAccount and updateAuthData, no two records of the
\* list have the same uuid.
C4_UuidsAreUnique ==
    \A i, j \in 1..Len(accounts) :
        accounts[i].uuid = accounts[j].uuid => i = j

\* C4's case: two accounts are stored and addAccount has been called again
\* with the uuid of the first one.
C4_Witness ==
    /\ last.op = "addAccount" /\ last.result /\ last.existed
    /\ Len(accounts) = 2
    /\ accounts[1].uuid = last.uuid

\* The uuids of the list, in order, without `uuid`.
RECURSIVE UuidsWithout(_, _)
UuidsWithout(accs, uuid) ==
    IF accs = <<>> THEN <<>>
    ELSE IF Head(accs).uuid = uuid THEN UuidsWithout(Tail(accs), uuid)
    ELSE <<Head(accs).uuid>> \o UuidsWithout(Tail(accs), uuid)

\* C5: when removeAccount removes the active account and an account remains,
\* the first remaining account in list order becomes the active account; when
\* none remains there is no active account; when the removed account was not
\* the active one the active account is the same as before.
C5_RemovalPromotesFirst ==
    [][\A uuid \in UUIDs, env \in StoreEnvs :
         (/\ last'.op = "removeAccount" /\ last'.uuid = uuid
          /\ UuidIsStored(uuid)
          /\ RemoveAccountStep(uuid, env)) =>
            LET rest == UuidsWithout(accounts, uuid)
            IN  /\ [i \in 1..Len(accounts') |-> accounts'[i].uuid] = rest
                /\ (ActiveUuid = uuid /\ rest # <<>>) =>
                       /\ activeAccount' = 1
                       /\ accounts'[1].uuid = rest[1]
                       /\ accounts'[1].active
                /\ (ActiveUuid = uuid /\ rest = <<>>) =>
                       /\ activeAccount' = 0
                       /\ Flagged(accounts') = {}
                /\ ActiveUuid # uuid =>
                       IF activeAccount = 0 THEN activeAccount' = 0
                       ELSE /\ activeAccount' # 0
                            /\ accounts'[activeAccount'] = accounts[activeAccount]
      ]_vars

\* C5's case: the active account was removed from a list of three, and the
\* first of the two remaining accounts is the active account now.
C5_Witness ==
    /\ last.op = "removeAccount" /\ last.result /\ last.wasActive
    /\ Len(accounts) = 2
    /\ activeAccount = 1
    /\ accounts[1].active

\* C6: exactly one account is flagged active if and only if the list is not
\* empty and no removal has emptied it before. Stated is the direction from
\* right to left: a list that holds accounts and that no removal has emptied
\* has exactly one flagged account.
C6_ExactlyOneWhileNeverEmptied ==
    (Len(accounts) > 0 /\ ~emptied) => Cardinality(Flagged(accounts)) = 1

SecretFields == {"accessToken", "clientToken", "refreshToken"}

\* The store with one secret of one record replaced.
WithSecret(S, i, field, value) == [S EXCEPT !.accounts[i][field] = value]

\* C7: getAccounts() and getActiveAccount() do not depend on the secrets:
\* replacing any accessToken, clientToken or refreshToken of the list leaves
\* both results the same, and no record they return has one of these fields;
\* getAuthData returns the three of them as stored.
C7_ListingsHideSecrets ==
    /\ \A i \in 1..Len(accounts), field \in SecretFields, value \in {"other", Null} :
           /\ getAccounts(WithSecret(Store, i, field, value)) = getAccounts(Store)
           /\ getActiveAccount(WithSecret(Store, i, field, value)) =
                  getActiveAccount(Store)
    /\ \A i \in 1..Len(accounts) :
           DOMAIN getAccounts(Store)[i] \cap SecretFields = {}
    /\ \A i \in 1..Len(getActiveAccount(Store)) :
           DOMAIN getActiveAccount(Store)[i] \cap SecretFields = {}
    /\ \A i \in 1..Len(accounts) :
           LET authData == getAuthData(Store, accounts[i].uuid)
           IN  /\ Len(authData) = 1
               /\ SecretFields \subseteq DOMAIN authData[1]
               /\ \A field \in SecretFields : authData[1][field] = accounts[i][field]

\* C7's case: a legacy and a federated account, with different secrets, are
\* stored and one of them is the active account.
C7_Witness ==
    /\ Len(accounts) = 2
    /\ activeAccount = 2
    /\ accounts[1].accessToken # accounts[2].accessToken
    /\ accounts[1].refreshToken # accounts[2].refreshToken
    /\ Len(getActiveAccount(Store)) = 1

\* C8: setActiveAccount(uuid) returns false and leaves the list, the flags
\* and the active account as they are when the uuid is not stored; when it is
\* stored, afterwards exactly that record is flagged active and
\* getActiveAccount() names it, however many records were flagged before.
C8_SetActiveFlipsExactlyOne ==
    [][\A uuid \in UUIDs, env \in StoreEnvs :
         (/\ last'.op = "setActiveAccount" /\ last'.uuid = uuid
          /\ SetActiveAccountStep(uuid, env)) =>
            IF UuidIsStored(uuid)
            THEN /\ \A i \in 1..Len(accounts') :
                        accounts'[i].active <=> (accounts'[i].uuid = uuid)
                 /\ Cardinality(Flagged(accounts')) = 1
                 /\ Len(getActiveAccount(Store')) = 1
                 /\ getActiveAccount(Store')[1].uuid = uuid
                 /\ getActiveAccount(Store')[1].active
                 /\ [i \in 1..Len(accounts') |-> accounts'[i].uuid] =
                        [i \in 1..Len(accounts) |-> accounts[i].uuid]
            ELSE /\ ~last'.result
                 /\ accounts' = accounts
                 /\ activeAccount' = activeAccount
      ]_vars

\* C8's case: two records were flagged active when setActiveAccount was
\* called for a stored uuid.
C8_Witness ==
    /\ last.op = "setActiveAccount" /\ last.result /\ last.existed
    /\ last.flagged = 2
    /\ Len(accounts) = 3

\* C9: removeAccount(uuid) for a uuid that is not stored returns false and
\* changes nothing: not the list, not the active account, not the persisted
\* blob (nothing is written).
C9_RemoveAbsentIsNoOp ==
    [][\A uuid \in UUIDs, env \in StoreEnvs :
         (/\ last'.op = "removeAccount" /\ last'.uuid = uuid
          /\ ~UuidIsStored(uuid)
          /\ RemoveAccountStep(uuid, env)) =>
            /\ ~last'.result
            /\ accounts' = accounts
            /\ activeAccount' = activeAccount
            /\ disk' = disk
      ]_vars

\* C9's case: removeAccount was called on a store of two accounts with a
\* uuid that is not one of theirs.
C9_Witness ==
    /\ last.op = "removeAccount" /\ ~last.existed /\ ~last.result
    /\ Len(accounts) = 2
    /\ activeAccount # 0
    /\ Len(disk.home.blob) = 1

\* C10: addAccount with a record that lacks uuid, accessToken or clientToken
\* (or with no record) returns false, and the list, the active account and
\* the persisted blob are the same as before the call.
C10_InvalidRecordIsRejected ==
    [][\A authData \in InvalidAuthInputs(UUIDs), env \in StoreEnvs :
         (/\ last'.op = "addAccount" /\ last'.uuid = UuidOf(authData)
          /\ AddAccountStep(authData, env)) =>
            /\ ~last'.result
            /\ accounts' = accounts
            /\ activeAccount' = activeAccount
            /\ disk' = disk
      ]_vars

\* C10's case: a record without accessToken was offered for a uuid that is
\* stored, next to another account.
C10_Witness ==
    /\ last.op = "addAccount" /\ ~last.result /\ last.existed
    /\ Len(accounts) = 2
    /\ activeAccount # 0

\* The properties of a partial record that are there. In a partial record
\* expiresAt = 0 stands for a record without that property.
PresentFields(authData) ==
    {f \in {"accessToken", "refreshToken", "profile"} : authData[f] # Undefined}
      \cup (IF authData.expiresAt # 0 THEN {"expiresAt"} ELSE {})

\* The properties of a partial record that hold a truthy value.
TruthyFields(authData) ==
    {f \in {"accessToken", "refreshToken", "profile"} : Truthy(authData[f])}
      \cup (IF authData.expiresAt # 0 THEN {"expiresAt"} ELSE {})

UpdatableFields == {"accessToken", "refreshToken", "expiresAt", "profile"}

\* What updateAuthData(uuid, authData) must do when it overwrites the fields
\* of `written` and no other.
UpdateWrites(uuid, authData, written) ==
    IF ~UuidIsStored(uuid)
    THEN /\ ~last'.result
         /\ accounts' = accounts
         /\ activeAccount' = activeAccount
         /\ disk' = disk
    ELSE LET k == CHOOSE i \in 1..Len(accounts) : accounts[i].uuid = uuid
         IN  /\ Len(accounts') = Len(accounts)
             /\ \A f \in written : accounts'[k][f] = authData[f]
             /\ \A f \in UpdatableFields \ written : accounts'[k][f] = accounts[k][f]
             /\ \A f \in {"uuid", "username", "type", "clientToken", "active"} :
                    accounts'[k][f] = accounts[k][f]
             /\ \A i \in 1..Len(accounts) : i # k => accounts'[i] = accounts[i]
             /\ activeAccount' = activeAccount

\* C11: updateAuthData(uuid, partial) returns false and changes nothing when
\* the uuid is not stored; otherwise it overwrites exactly those of
\* accessToken, refreshToken, expiresAt and profile that are present in the
\* partial record, and leaves uuid, username, type, clientToken, the active
\* flag, the position, the absent fields and every other record unchanged.
C11_WritesPresentFields ==
    [][\A uuid \in FewUuids, authData \in PartialInputs, env \in StoreEnvs :
         (/\ last'.op = "updateAuthData" /\ last'.uuid = uuid
          /\ UpdateAuthDataStep(uuid, authData, env)) =>
            UpdateWrites(uuid, authData, PresentFields(authData))
      ]_vars

\* C11, amended: as C11, with "present" read as "present with a truthy
\* value": a property that is there but holds null or '' is not written.
C11_WritesTruthyFields ==
    [][\A uuid \in FewUuids, authData \in PartialInputs, env \in StoreEnvs :
         (/\ last'.op = "updateAuthData" /\ last'.uuid = uuid
          /\ UpdateAuthDataStep(uuid, authData, env)) =>
            UpdateWrites(uuid, authData, TruthyFields(authData))
      ]_vars

\* C11's case: updateAuthData was called for the second record of two, a
\* federated one, with a partial record that holds nulls; the record still
\* has its refresh token and its profile.
C11_Witness ==
    /\ last.op = "updateAuthData" /\ last.result
    /\ Len(accounts) = 2
    /\ accounts[2].uuid = last.uuid
    /\ accounts[2].refreshToken = "rt2"
    /\ accounts[2].profile = "p2"
    /\ accounts[2].lastUsed = 1
    /\ accounts[2].type = "microsoft"

\* C12: getAuthData(uuid) returns the secret-bearing record of the stored
\* account with that uuid, and none when no account has it; getAuthData()
\* returns the record of the account getActiveAccount() names, and none when
\* there is no active account; the call changes nothing in the store.
C12_GetAuthDataReadsTheRecord ==
    [][\A uuid \in FewUuids \cup {0}, env \in StoreEnvs :
         (/\ last'.op = "getAuthData" /\ last'.uuid = uuid
          /\ GetAuthDataStep(uuid, env)) =>
            LET named == IF uuid # 0
                         THEN {i \in 1..Len(accounts) : accounts[i].uuid = uuid}
                         ELSE {i \in 1..Len(accounts) :
                                 /\ getActiveAccount(Store) # <<>>
                                 /\ accounts[i].uuid = getActiveAccount(Store)[1].uuid
                                 /\ i = activeAccount}
            IN  /\ named = {} => returned' = <<>>
                /\ \A k \in named :
                       /\ Len(returned') = 1
                       /\ DOMAIN returned'[1] =
                              {"accessToken", "clientToken", "uuid", "username",
                               "refreshToken", "expiresAt", "profile", "type"}
                       /\ \A f \in DOMAIN returned'[1] :
                              returned'[1][f] = accounts[k][f]
                /\ accounts' = accounts
                /\ activeAccount' = activeAccount
                /\ encryptionKey' = encryptionKey
                /\ storageConfig' = storageConfig
                /\ disk' = disk
      ]_vars

\* C12's case: two accounts are stored, and getAuthData(uuid) has returned
\* the secrets of the one that is not the active account.
C12_Witness ==
    /\ last.op = "getAuthData" /\ last.uuid # 0
    /\ Len(accounts) = 2
    /\ Len(returned) = 1
    /\ ActiveUuid # last.uuid
    /\ returned[1].uuid = last.uuid
    /\ returned[1].accessToken = "at2"
    /\ returned[1].refreshToken = "rt2"

\* The endpoints a call has sent requests to, in the order of the requests.
EndpointsOf(f) == [i \in 1..Len(f.requests) |-> f.requests[i].endpoint]

\* The provider requests of the code exchange, in the order of the code.
LoginChain ==
    <<ENDPOINTS.MICROSOFT.AUTH, ENDPOINTS.MICROSOFT.XBL, ENDPOINTS.MICROSOFT.XSTS,
      ENDPOINTS.MICROSOFT.MINECRAFT, ENDPOINTS.MICROSOFT.PROFILE>>

\* The step has called no operation of the store and changed nothing of it.
StoreUntouched ==
    /\ accounts' = accounts
    /\ activeAccount' = activeAccount
    /\ disk' = disk
    /\ last' = last

LoginResponses == Responses(flow.pc, FewUuids, {"at3"})

\* The call has run to its end, or to the await before its end.
Continued(f) == f.pc \in {"done", "await"}

\* What the call settles with: its outcome, or the one it goes on to when
\* it awaits.
Ending(f) == IF f.pc = "await" THEN f.awaited ELSE f.outcome

\* The turn after an await settles the call with what it awaited and
\* touches neither its requests nor the store.
ResumeSettles ==
    ResumesStep =>
        /\ flow'.pc = "done"
        /\ flow'.outcome = flow.awaited
        /\ flow'.requests = flow.requests
        /\ StoreUntouched

\* C13: in the code exchange, when hop 3 fails with the account-not-linked
\* code, the call rejects with the dedicated failure, which differs from the
\* failure of any other hop-3 error status; hop 4 and the profile fetch are
\* not issued, and no account is added to the store.
C13_NotLinkedShortCircuits ==
    [][\A response \in LoginResponses, clientToken \in ClientTokens,
          now \in AuthTimes, env \in StoreEnvs :
         (/\ flow.pc = ENDPOINTS.MICROSOFT.XSTS /\ flow'.pc = "done"
          /\ ~response.net /\ ~Ok(response)
          /\ LoginRespondsStep(response, clientToken, now, env)) =>
            /\ flow'.outcome.status = "rejected"
            /\ (response.body.XErr = XErrNoXboxAccount) <=>
                   (flow'.outcome.error.text =
                        "The Microsoft account does not have an Xbox account")
            /\ (response.body.XErr # XErrNoXboxAccount) <=>
                   (flow'.outcome.error.text = "Failed to get XSTS token")
            /\ EndpointsOf(flow') = SubSeq(LoginChain, 1, 3)
            /\ StoreUntouched
      ]_vars

\* C13's case: a code exchange has ended at hop 3 with the dedicated
\* failure while two accounts were stored.
C13_Witness ==
    /\ flow.fn = "microsoftAuthenticateWithCode" /\ flow.pc = "done"
    /\ flow.outcome.error.text = "The Microsoft account does not have an Xbox account"
    /\ Len(flow.requests) = 3
    /\ Len(accounts) = 2

\* C14: the code exchange issues its requests in the order hop 1, hop 2,
\* hop 3, hop 4, profile; a request is issued only when the previous one was
\* answered with success; when a request fails no further request is
\* issued, the call rejects, addAccount is not called and the account list
\* and the active account stay as they are.
C14_ChainInOrder ==
    [][/\ flow'.fn = "microsoftAuthenticateWithCode" =>
            EndpointsOf(flow') = SubSeq(LoginChain, 1, Len(flow'.requests))
       /\ \A response \in LoginResponses, clientToken \in ClientTokens,
             now \in AuthTimes, env \in StoreEnvs :
            (/\ flow.fn = "microsoftAuthenticateWithCode" /\ flow' # flow
             /\ LoginRespondsStep(response, clientToken, now, env)) =>
               IF response.net \/ ~Ok(response)
               THEN /\ flow'.pc = "done"
                    /\ flow'.outcome.status = "rejected"
                    /\ flow'.requests = flow.requests
                    /\ StoreUntouched
               ELSE IF Len(flow.requests) < Len(LoginChain)
               THEN /\ Len(flow'.requests) = Len(flow.requests) + 1
                    /\ flow'.pc = LoginChain[Len(flow.requests) + 1]
                    /\ StoreUntouched
               ELSE /\ flow'.pc = "await"
                    /\ flow'.requests = flow.requests
                    /\ last'.op = "addAccount"
       /\ ResumeSettles
      ]_vars

\* C14's case: a code exchange was rejected at hop 4, after four requests,
\* while an account was stored.
C14_Witness ==
    /\ flow.fn = "microsoftAuthenticateWithCode" /\ flow.pc = "done"
    /\ flow.outcome.status = "rejected"
    /\ flow.outcome.error.text = "Failed to authenticate with Minecraft"
    /\ EndpointsOf(flow) = SubSeq(LoginChain, 1, 4)
    /\ Len(accounts) = 1

\* C15: when hops 1-4 succeed and the profile fetch answers 404, the code
\* exchange rejects with the dedicated no-entitlement failure, which differs
\* from the failure of every other non-success profile status, and no account
\* is added to the store.
C15_NotFoundIsNoEntitlement ==
    [][\A response \in LoginResponses, clientToken \in ClientTokens,
          now \in AuthTimes, env \in StoreEnvs :
         (/\ flow.pc = ENDPOINTS.MICROSOFT.PROFILE /\ flow'.pc = "done"
          /\ ~response.net /\ ~Ok(response)
          /\ LoginRespondsStep(response, clientToken, now, env)) =>
            /\ flow'.outcome.status = "rejected"
            /\ (response.status = 404) <=>
                   (flow'.outcome.error.text = "You need to buy Minecraft to continue")
            /\ (response.status # 404) <=>
                   (/\ flow'.outcome.error.text = "Failed to get Minecraft profile"
                    /\ flow'.outcome.error.status = response.status)
            /\ Len(flow.requests) = 5
            /\ StoreUntouched
      ]_vars

\* C15's case: a code exchange went through the four hops and was rejected
\* with the no-entitlement failure while two accounts were stored.
C15_Witness ==
    /\ flow.fn = "microsoftAuthenticateWithCode" /\ flow.pc = "done"
    /\ flow.outcome.error.text = "You need to buy Minecraft to continue"
    /\ EndpointsOf(flow) = LoginChain
    /\ Len(accounts) = 2

ConfigurationFailure == "Microsoft client ID is not configured"

\* A call has failed at once: rejected, no request issued, store untouched.
FailsBeforeAnyRequest ==
    /\ flow'.pc = "done"
    /\ flow'.outcome.status = "rejected"
    /\ flow'.requests = <<>>
    /\ StoreUntouched

\* The stored record refreshMicrosoftToken(uuid) would send the refresh
\* token of, if there is one.
HasRefreshToken(uuid) ==
    \E i \in 1..Len(accounts) :
        accounts[i].uuid = uuid /\ Truthy(accounts[i].refreshToken)

\* C16: when the OAuth client id is not configured, microsoftGenerateAuthUrl,
\* microsoftAuthenticateWithCode and refreshMicrosoftToken each fail with the
\* configuration failure before any network request, and the store is
\* unchanged.
C16_UnconfiguredFailsWithConfigurationFailure ==
    [][/\ \A redirectUri \in RedirectUris :
            (/\ flow'.fn = "microsoftGenerateAuthUrl" /\ flow' # flow
             /\ StartGenerateAuthUrlStep(redirectUri, Undefined, "state1")) =>
               /\ FailsBeforeAnyRequest
               /\ flow'.outcome.error.text = ConfigurationFailure
       /\ \A code \in Codes, redirectUri \in RedirectUris :
            (/\ flow'.fn = "microsoftAuthenticateWithCode" /\ flow' # flow
             /\ StartLoginStep(code, redirectUri, Undefined)) =>
               /\ FailsBeforeAnyRequest
               /\ flow'.outcome.error.text = ConfigurationFailure
       /\ \A uuid \in FewUuids :
            (/\ flow'.fn = "refreshMicrosoftToken" /\ flow' # flow
             /\ (\E env \in StoreEnvs : StartRefreshStep(uuid, Undefined, env))) =>
               /\ FailsBeforeAnyRequest
               /\ flow'.outcome.error.text = ConfigurationFailure
      ]_vars

\* C16, amended: when the OAuth client id is not configured, each of the
\* three calls fails before any network request and leaves the store
\* unchanged; the failure is the configuration failure unless an earlier
\* check of the call fails: a code exchange without code or redirect uri
\* fails with its argument failure, and a refresh for a uuid that has no
\* stored refresh token fails with the no-refresh-token failure.
C16_UnconfiguredFailsBeforeAnyRequest ==
    [][/\ \A redirectUri \in RedirectUris :
            (/\ flow'.fn = "microsoftGenerateAuthUrl" /\ flow' # flow
             /\ StartGenerateAuthUrlStep(redirectUri, Undefined, "state1")) =>
               /\ FailsBeforeAnyRequest
               /\ flow'.outcome.error.text = ConfigurationFailure
       /\ \A code \in Codes, redirectUri \in RedirectUris :
            (/\ flow'.fn = "microsoftAuthenticateWithCode" /\ flow' # flow
             /\ StartLoginStep(code, redirectUri, Undefined)) =>
               /\ FailsBeforeAnyRequest
               /\ flow'.outcome.error.text =
                      (IF code = "" \/ redirectUri = ""
                       THEN "Authorization code and redirect URI are required"
                       ELSE ConfigurationFailure)
       /\ \A uuid \in FewUuids :
            (/\ flow'.fn = "refreshMicrosoftToken" /\ flow' # flow
             /\ (\E env \in StoreEnvs : StartRefreshStep(uuid, Undefined, env))) =>
               /\ FailsBeforeAnyRequest
               /\ flow'.outcome.error.text =
                      (IF HasRefreshToken(uuid) THEN ConfigurationFailure
                       ELSE "No refresh token available")
      ]_vars

\* C16's case: without a client id, a refresh for a stored federated account
\* has failed with the configuration failure, no request issued.
C16_Witness ==
    /\ flow.fn = "refreshMicrosoftToken" /\ flow.pc = "done"
    /\ flow.clientId = Undefined
    /\ flow.outcome.error.text = ConfigurationFailure
    /\ flow.requests = <<>>
    /\ HasRefreshToken(flow.uuid)
    /\ Len(accounts) = 2

\* C17: refreshMicrosoftToken(uuid) for a uuid that is not stored, or whose
\* stored record has no refresh token, fails with the no-refresh-token
\* failure, issues no request and leaves the store unchanged.
C17_NoRefreshTokenFailsAtOnce ==
    [][\A uuid \in FewUuids, clientId \in ClientIds :
         (/\ flow'.fn = "refreshMicrosoftToken" /\ flow' # flow
          /\ ~HasRefreshToken(uuid)
          /\ (\E env \in StoreEnvs : StartRefreshStep(uuid, clientId, env))) =>
            /\ FailsBeforeAnyRequest
            /\ flow'.outcome.error = Err(RefreshFailed, "No refresh token available", 0)
      ]_vars

\* C17's case: a refresh was asked for a stored legacy account, which has no
\* refresh token, with the client id configured.
C17_Witness ==
    /\ flow.fn = "refreshMicrosoftToken" /\ flow.pc = "done"
    /\ flow.clientId = "cid"
    /\ flow.outcome.error.text = "No refresh token available"
    /\ flow.requests = <<>>
    /\ UuidIsStored(flow.uuid)
    /\ ~HasRefreshToken(flow.uuid)

RefreshResponses == Responses(flow.pc, FewUuids, {"at3", "at4"})

\* C18: a refresh that succeeds sets the record's accessToken, refreshToken
\* and expiresAt to the values of this run (hop 4's token, hop 1's refresh
\* token, the expiry computed from hop 1's lifetime) and leaves the record's
\* username, profile, clientToken, type, active flag and position, the
\* active account and all other records unchanged; a refresh that fails at a
\* hop changes nothing in the store.
C18_RefreshWritesThreeFields ==
    [][\A response \in RefreshResponses, now \in AuthTimes, env \in StoreEnvs :
         (/\ flow.fn = "refreshMicrosoftToken" /\ flow' # flow
          /\ RefreshRespondsStep(response, now, env)) =>
            IF response.net \/ ~Ok(response)
            THEN /\ flow'.outcome.status = "rejected"
                 /\ StoreUntouched
            ELSE flow'.outcome.status = "resolved" =>
                   LET k == CHOOSE i \in 1..Len(accounts) : accounts[i].uuid = flow.uuid
                   IN  /\ flow.pc = ENDPOINTS.MICROSOFT.MINECRAFT
                       /\ accounts'[k].accessToken = response.body.access_token
                       /\ accounts'[k].refreshToken = flow.tokenData[1].refresh_token
                       /\ accounts'[k].expiresAt =
                              now + (flow.tokenData[1].expires_in * 1000)
                       /\ \A f \in {"uuid", "username", "profile", "clientToken",
                                      "type", "active"} :
                              accounts'[k][f] = accounts[k][f]
                       /\ Len(accounts') = Len(accounts)
                       /\ \A i \in 1..Len(accounts) : i # k => accounts'[i] = accounts[i]
                       /\ activeAccount' = activeAccount
      ]_vars

\* C18's case: the federated account, stored second, has been refreshed: it
\* has the tokens of the run and its own profile, username and clientToken.
C18_Witness ==
    /\ flow.fn = "refreshMicrosoftToken" /\ flow.pc = "done"
    /\ flow.outcome.status = "resolved"
    /\ Len(accounts) = 2
    /\ accounts[2].uuid = flow.uuid
    /\ accounts[2].accessToken = "at4"
    /\ accounts[2].refreshToken = "rt3"
    /\ accounts[2].expiresAt = 1003
    /\ accounts[2].profile = "p2"
    /\ accounts[2].clientToken = "ct2"

\* The record validateToken(uuid) looks at: the one with that uuid, or the
\* active account when uuid = 0.
Validated(uuid) == getAuthData(Store, uuid)

\* C19: validateToken for a federated account whose expiresAt is in the
\* future answers valid, issues no request and leaves the store unchanged.
C19_UnexpiredIsValidOffline ==
    [][\A uuid \in FewUuids \cup {0}, clientId \in ClientIds, now \in AuthTimes :
         (/\ flow'.fn = "validateToken" /\ flow' # flow
          /\ Validated(uuid) # <<>>
          /\ Validated(uuid)[1].type = "microsoft"
          /\ Validated(uuid)[1].expiresAt > now
          /\ (\E env \in StoreEnvs : StartValidateStep(uuid, clientId, now, env))) =>
            /\ flow'.pc = "done"
            /\ flow'.outcome.status = "resolved"
            /\ flow'.outcome.valid
            /\ flow'.requests = <<>>
            /\ StoreUntouched
      ]_vars

\* C19's case: validateToken has answered valid, without a request and
\* without a client id, for a federated account that was never refreshed.
C19_Witness ==
    /\ flow.fn = "validateToken" /\ flow.pc = "done"
    /\ flow.outcome.valid
    /\ flow.requests = <<>>
    /\ flow.clientId = Undefined
    /\ \E i \in 1..Len(accounts) :
           /\ accounts[i].uuid = flow.uuid
           /\ accounts[i].type = "microsoft"
           /\ accounts[i].expiresAt = 2

\* C20: validateToken for a federated account whose expiresAt is absent or
\* not in the future answers valid if and only if the refresh of that account
\* succeeds (the four hops are answered with success and the record is
\* updated); for a legacy account it issues exactly one validate request and
\* answers valid if and only if the answer has status 204; for an unknown
\* uuid or an empty store it answers invalid and issues no request.
C20_ValidateFollowsProviderOrRefresh ==
    [][/\ \A uuid \in FewUuids \cup {0}, clientId \in ClientIds, now \in AuthTimes :
            (/\ flow'.fn = "validateToken" /\ flow' # flow
             /\ (\E env \in StoreEnvs : StartValidateStep(uuid, clientId, now, env))) =>
               IF Validated(uuid) = <<>>
               THEN /\ flow'.pc = "done" /\ ~flow'.outcome.valid
                    /\ flow'.requests = <<>>
                    /\ StoreUntouched
               ELSE IF Validated(uuid)[1].type # "microsoft"
               THEN /\ EndpointsOf(flow') = <<ENDPOINTS.MOJANG.VALIDATE>>
                    /\ flow'.pc = ENDPOINTS.MOJANG.VALIDATE
                    /\ StoreUntouched
               ELSE IF Validated(uuid)[1].expiresAt = 0
                       \/ ~(Validated(uuid)[1].expiresAt > now)
               THEN \/ /\ flow'.pc = ENDPOINTS.MICROSOFT.AUTH
                       /\ EndpointsOf(flow') = <<ENDPOINTS.MICROSOFT.AUTH>>
                    \/ /\ flow'.pc = "await" /\ flow'.awaited = Answered(FALSE)
                       /\ flow'.refresh.status = "rejected"
                       /\ flow'.requests = <<>>
                       /\ StoreUntouched
               ELSE TRUE
       /\ \A response \in RefreshResponses \cup ValidateResponses,
             now \in AuthTimes, env \in StoreEnvs :
            (/\ flow.fn = "validateToken" /\ flow' # flow /\ Continued(flow')
             /\ response \in Responses(flow.pc, FewUuids, {"at3", "at4"})
             /\ ValidateRespondsStep(response, now, env)) =>
               /\ Ending(flow').status = "resolved"
               /\ IF flow.pc = ENDPOINTS.MOJANG.VALIDATE
                  THEN /\ Ending(flow').valid <=>
                              (~response.net /\ response.status = 204)
                       /\ EndpointsOf(flow') = <<ENDPOINTS.MOJANG.VALIDATE>>
                       /\ StoreUntouched
                  ELSE Ending(flow').valid <=>
                          /\ flow.pc = ENDPOINTS.MICROSOFT.MINECRAFT
                          /\ ~response.net /\ Ok(response)
                          /\ EndpointsOf(flow') = SubSeq(LoginChain, 1, 4)
                          /\ last'.op = "updateAuthData" /\ last'.result
                          /\ \E i \in 1..Len(accounts') :
                                 /\ accounts'[i].uuid = flow.uuid
                                 /\ accounts'[i].accessToken = response.body.access_token
       /\ ResumeSettles
      ]_vars

\* C20's case: validateToken has answered valid for a federated account
\* whose token had expired, after the four requests of the refresh.
C20_Witness ==
    /\ flow.fn = "validateToken" /\ flow.pc = "done"
    /\ flow.outcome.valid
    /\ Len(flow.requests) = 4
    /\ flow.refresh.status = "resolved"
    /\ Len(accounts) = 2

\* The uuid is not in the list after the step.
Gone(uuid) == \A i \in 1..Len(accounts') : accounts'[i].uuid # uuid

\* C21: a logoutAccount that has found a record removes the account of that
\* record from the store and returns the result of the removal (true when
\* an account was removed and the list persisted), whatever the invalidate
\* request of a legacy account has come to: a success, an error status or a
\* network failure; for an account of another type it issues no request and
\* removes at once.
C21_LogoutAlwaysRemoves ==
    [][/\ \A response \in InvalidateResponses, env \in FaultyEnvs :
            (flow.pc = ENDPOINTS.MOJANG.INVALIDATE /\ LogoutRespondsStep(response, env))
              => /\ Gone(flow.uuid)
                 /\ last'.op = "removeAccount" /\ last'.uuid = flow.uuid
                 /\ flow'.pc = "done"
                 /\ flow'.outcome =
                        Answered(UuidIsStored(flow.uuid) /\ env.writeOk)
       /\ \A uuid \in FewUuids \cup {0}, env \in FaultyEnvs :
            (/\ Settled /\ flow'.fn = "logoutAccount"
             /\ getAuthData(Store, uuid) # <<>> /\ StartLogoutStep(uuid, env))
              => LET authData == getAuthData(Store, uuid)[1]
                 IN  IF authData.type = "mojang"
                     THEN /\ EndpointsOf(flow') = <<ENDPOINTS.MOJANG.INVALIDATE>>
                          /\ flow'.pc = ENDPOINTS.MOJANG.INVALIDATE
                          /\ flow'.uuid = authData.uuid
                     ELSE /\ flow'.requests = <<>>
                          /\ flow'.pc = "done"
                          /\ Gone(authData.uuid)
                          /\ last'.op = "removeAccount" /\ last'.uuid = authData.uuid
                          /\ flow'.outcome = Answered(env.writeOk)]_vars

\* A logout of a legacy account has sent its request, removed the account
\* and returned true; the other account is still stored.
C21_Witness ==
    /\ flow.fn = "logoutAccount" /\ flow.pc = "done"
    /\ EndpointsOf(flow) = <<ENDPOINTS.MOJANG.INVALIDATE>>
    /\ flow.outcome = Answered(TRUE)
    /\ last.op = "removeAccount" /\ last.uuid = flow.uuid /\ last.existed
    /\ ~UuidIsStored(flow.uuid)
    /\ Len(accounts) = 1

\* The record of the list with this uuid, as a sequence of at most one.
StoredAfter(uuid) ==
    SelectSeq(accounts', LAMBDA acc : acc.uuid = uuid)

\* C23: mojangAuthenticate stores an account and resolves whenever the
\* response to its request is a success status with an accessToken and a
\* selected profile: the stored account has the uuid and the username of
\* the profile and the legacy type and is the active account; on any other
\* response it rejects and leaves the store as it was.
C23_LegacyLoginStoresTheProfile ==
    [][\A response \in AuthenticateResponses(FewUuids), env \in StoreEnvs :
         (flow.pc = ENDPOINTS.MOJANG.AUTH /\ MojangRespondsStep(response, env))
           => IF /\ ~response.net /\ Ok(response)
                 /\ Truthy(response.body.accessToken)
                 /\ response.body.selectedProfile # <<>>
              THEN LET profile == response.body.selectedProfile[1]
                   IN  /\ Ending(flow').status = "resolved"
                       /\ Len(StoredAfter(profile.id)) = 1
                       /\ StoredAfter(profile.id)[1].username = profile.name
                       /\ StoredAfter(profile.id)[1].type = "mojang"
                       /\ activeAccount' # 0
                       /\ accounts'[activeAccount'].uuid = profile.id
              ELSE /\ flow'.outcome.status = "rejected"
                   /\ StoreUntouched
         /\ ResumeSettles]_vars

\* C24: validateToken and logoutAccount do not swallow failures: a validate
\* request that fails on the network, a refresh that fails and a removal
\* whose write the backend refuses give the caller an outcome that differs
\* from the plain negative answer (false: the token is invalid, nothing was
\* removed).
C24_FailuresAreDistinguishable ==
    [][/\ \A response \in Responses(flow.pc, FewUuids, {"at3", "at4"}),
             now \in AuthTimes, env \in StoreEnvs :
            (/\ flow.fn = "validateToken"
             /\ ValidateRespondsStep(response, now, env)
             /\ Continued(flow')
             /\ response.net \/ flow'.refresh.status = "rejected")
              => Ending(flow') # Answered(FALSE)
       /\ \A response \in InvalidateResponses, env \in FaultyEnvs :
            (/\ flow.pc = ENDPOINTS.MOJANG.INVALIDATE
             /\ LogoutRespondsStep(response, env)
             /\ UuidIsStored(flow.uuid) /\ ~env.writeOk)
              => flow'.outcome # Answered(FALSE)]_vars

(***************************************************************************)
(* SpecSilent: the five operations that talk to a provider, with logins of  *)
(* the store in between. A provider answers a request with a success or     *)
(* never answers it: the steps of the behaviour are fair as a whole (the    *)
(* process does not halt while it has something to run), and no fairness is *)
(* assumed of the answers. auth.js sets no timer and passes no abort signal *)
(* to fetch, so there is no step that ends a request the provider leaves    *)
(* unanswered.                                                              *)
(***************************************************************************)
StartLoginSilent ==
    \E redirectUri \in RedirectUris : StartLoginStep("code1", redirectUri, "cid")

StartRefreshSilent ==
    \E uuid \in FewUuids, env \in StoreEnvs : StartRefreshStep(uuid, "cid", env)

StartValidateSilent ==
    \E uuid \in FewUuids, now \in AuthTimes, env \in StoreEnvs :
      StartValidateStep(uuid, "cid", now, env)

SilentEnvs == {env \in StoreEnvs : env.iv = "iv1"}

StartLogoutSilent ==
    \E uuid \in FewUuids, env \in SilentEnvs : StartLogoutStep(uuid, env)

LoginSilent ==
    \E authData \in {LegacyAuth(1), FederatedAuth(2)}, env \in SilentEnvs :
      AddAccountStep(authData, env)

Answers ==
    \E response \in {a \in Responses(flow.pc, {1}, {"at3"}) : ~a.net /\ Ok(a)},
       clientToken \in ClientTokens, now \in {3}, env \in SilentEnvs :
      \/ MojangRespondsStep(response, env)
      \/ LoginRespondsStep(response, clientToken, now, env)
      \/ RefreshRespondsStep(response, now, env)
      \/ ValidateRespondsStep(response, now, env)
      \/ LogoutRespondsStep(response, env)

NextSilent ==
    \/ LoginSilent
    \/ StartMojang \/ StartLoginSilent \/ StartRefreshSilent
    \/ StartValidateSilent \/ StartLogoutSilent
    \/ Answers \/ ResumesStep

SpecSilent ==
    Init /\ [][NextSilent]_vars /\ WF_vars(NextSilent) /\ WF_vars(ResumesStep)

\* C22: every provider request has its own timeout: a call suspended on a
\* request the provider never answers is eventually completed all the same
\* (with a Timeout failure; logoutAccount with its removal).
C22_SuspendedCallCompletes == (~Settled) ~> Settled

\* What an operation that could not initialize the store comes to: the
\* store as it was, and false.
Refused(S) == [store |-> S, result |-> FALSE, ioFailed |-> TRUE]

\* The outcome of an operation on the store S, given the outcome it has on
\* the store that initializeAccountStorage makes of S.
AfterInitializing(init, outcome) ==
    [outcome EXCEPT !.ioFailed = @ \/ init.ioFailed]

\* C25: initialization is idempotent and lazy. On an initialized store
\* initializeAccountStorage returns true and changes nothing; on a store
\* that is not initialized every operation first runs the initialization,
\* once: it comes to what the operation comes to on the initialized store
\* (which is flagged, so that nothing is initialized a second time), and to
\* a failure that leaves the store as it was when the initialization fails.
C25_InitializationIsIdempotentAndLazy ==
    \A env \in StorageEnvs :
      LET init == initializeAccountStorage(Store, env)
      IN  IF storageConfig.initialized THEN init = Done(Store, TRUE)
          ELSE IF init.result
          THEN /\ init.store.storageConfig.initialized
               /\ initializeAccountStorage(init.store, env) = Done(init.store, TRUE)
               /\ \A authData \in AuthInputs(FewUuids) :
                    addAccount(Store, authData, env) =
                      AfterInitializing(init, addAccount(init.store, authData, env))
               /\ \A uuid \in FewUuids :
                    /\ removeAccount(Store, uuid, env) =
                         AfterInitializing(init, removeAccount(init.store, uuid, env))
                    /\ setActiveAccount(Store, uuid, env) =
                         AfterInitializing(init, setActiveAccount(init.store, uuid, env))
                    /\ updateAuthData(Store, uuid, RefreshedAuth, env) =
                         AfterInitializing(init,
                             updateAuthData(init.store, uuid, RefreshedAuth, env))
               /\ getAccountsLazily(Store, env) =
                    AfterInitializing(init, getAccountsLazily(init.store, env))
               /\ getActiveAccountLazily(Store, env) =
                    AfterInitializing(init, getActiveAccountLazily(init.store, env))
          ELSE /\ init = Refused(Store)
               /\ \A authData \in AuthInputs(FewUuids) :
                    addAccount(Store, authData, env) = Refused(Store)
               /\ \A uuid \in FewUuids :
                    /\ removeAccount(Store, uuid, env) = Refused(Store)
                    /\ setActiveAccount(Store, uuid, env) = Refused(Store)
                    /\ updateAuthData(Store, uuid, RefreshedAuth, env) = Refused(Store)
               /\ getAccountsLazily(Store, env) = [Refused(Store) EXCEPT !.result = <<>>]
               /\ getActiveAccountLazily(Store, env) =
                    [Refused(Store) EXCEPT !.result = <<>>]

\* The load could not make the directory; the addAccount that followed has
\* initialized the store and stored its account.
C25_Witness ==
    /\ failures = 1
    /\ last.op = "addAccount" /\ last.result
    /\ storageConfig.initialized
    /\ Len(accounts) = 1
    /\ Medium(Store) = "home" /\ disk.home.key = "k3"

\* The key initializeAccountStorage uses on a medium: the one stored there
\* or a new one.
KeyOf(medium, env) == IF medium.key = NoKey THEN env.newKey ELSE medium.key

\* The medium holds a blob that decrypt or JSON.parse throws on.
Undecryptable(medium, env) ==
    /\ medium.blob # <<>>
    /\ decryptThrows(medium.blob[1], KeyOf(medium, env))

\* The blob is the encrypted empty list.
EmptyListBlob(medium) ==
    /\ medium.blob # <<>>
    /\ ~decryptThrows(medium.blob[1], medium.key)
    /\ JSONparse(decrypt(medium.blob[1], medium.key)) = <<>>

\* C26: when the blob of the backend cannot be decrypted (its tag or its
\* ciphertext was changed, it is no envelope, it was written under another
\* key, or the key is gone), the initialization succeeds with the empty
\* list and no active account, surfaces no failure, and overwrites the blob
\* with the encrypted empty list.
C26_UndecryptableBlobResetsTheStore ==
    [][/\ \A env \in StorageEnvs :
            (Undecryptable(disk.home, env) /\ LoadStep(env))
              => /\ last'.result /\ storageConfig'.initialized
                 /\ accounts' = <<>> /\ activeAccount' = 0
                 /\ EmptyListBlob(disk'.home)
                 /\ disk'.home.key = KeyOf(disk.home, env)
       /\ \A config \in Configs, env \in StorageEnvs :
            (/\ last'.op = "configureStorage"
             /\ ConfigureStorageStep(config, env)
             /\ Medium(Store') # "none"
             /\ Undecryptable(disk[Medium(Store')], env))
              => /\ last'.result /\ storageConfig'.initialized
                 /\ accounts' = <<>> /\ activeAccount' = 0
                 /\ EmptyListBlob(disk'[Medium(Store')])]_vars

\* The module was loaded on a list whose key file holds another key: the
\* store is empty and the blob is the encrypted empty list.
C26_Witness ==
    /\ last.op = "load" /\ last.result
    /\ accounts = <<>> /\ activeAccount = 0
    /\ disk.home.key = "k1" /\ encryptionKey = "k1"
    /\ EmptyListBlob(disk.home)

\* What a medium holds: the list of its blob under its key; no list when
\* there is no blob or no key or the blob does not decrypt.
Holds(medium) ==
    IF medium.blob # <<>> /\ ~decryptThrows(medium.blob[1], medium.key)
    THEN JSONparse(decrypt(medium.blob[1], medium.key))
    ELSE <<>>

HeldBy(media, name) == IF name = "none" THEN <<>> ELSE Holds(media[name])

\* C27: after configureStorage the list in memory and the active account
\* are what the backend selected holds (the empty list and none when it
\* holds no blob); no read shows an account of the previous backend alone,
\* nothing of the previous list is written to the backend selected, and the
\* key and the blob of the previous backend are left as they were.
C27_BackendsAreIsolated ==
    [][\A config \in Configs, env \in StorageEnvs :
         (last'.op = "configureStorage" /\ ConfigureStorageStep(config, env))
           => LET old == Medium(Store)
                  new == Medium(Store')
              IN  /\ last'.result
                       => /\ accounts' = HeldBy(disk, new)
                          /\ activeAccount' = FindActive(accounts')
                  /\ \A read \in StorageEnvs :
                       /\ getAccountsLazily(Store', read).result =
                            [i \in 1..Len(HeldBy(disk, new)) |->
                                SafeProjection(HeldBy(disk, new)[i])]
                       /\ getActiveAccountLazily(Store', read).result =
                            [i \in 1..Len(getActiveAccountLazily(Store', read).result) |->
                                SafeProjection(
                                    HeldBy(disk, new)[FindActive(HeldBy(disk, new))])]
                  /\ new # "none" => HeldBy(disk', new) = HeldBy(disk, new)
                  /\ (old # "none" /\ old # new) => disk'[old] = disk[old]]_vars

\* The store has moved from the default location, whose blob holds the
\* account of uuid 1, to the other location, whose blob holds the account
\* of uuid 2 alone: that one is the list in memory.
C27_Witness ==
    /\ last.op = "configureStorage" /\ last.result
    /\ Medium(Store) = "alt"
    /\ Len(accounts) = 1 /\ accounts[1].uuid = 2
    /\ Len(Holds(disk.home)) = 1 /\ Holds(disk.home)[1].uuid = 1

(***************************************************************************)
(* SpecCrypto: encrypt and decrypt by themselves. The text is the           *)
(* JSON.stringify of a list (the one text accounts.js ever encrypts, line   *)
(* 186: well-formed, so that the 'utf8' encoding and decoding of the text   *)
(* lose nothing), the key is the key in memory, the envelope is the         *)
(* accounts file of the default location. Between the calls the file may    *)
(* be edited, or replaced by one that was written under another key.        *)
(***************************************************************************)
CryptoLists ==
    {<<>>, <<NewAccount(LegacyAuth(1), 1)>>, <<NewAccount(FederatedAuth(2), 1)>>}

Plaintexts == {JSONstringify(list) : list \in CryptoLists}

InitCrypto ==
    \E list \in CryptoLists, key \in Keys :
      /\ accounts = list
      /\ activeAccount = FindActive(list)
      /\ storageConfig = [Unloaded.storageConfig EXCEPT !.initialized = TRUE]
      /\ encryptionKey = key
      /\ disk = [FreshMedia EXCEPT !.home = [dir |-> TRUE, key |-> key, blob |-> <<>>]]
      /\ failures = 0
      /\ last = NoCall
      /\ emptied = FALSE
      /\ returned = <<>>
      /\ flow = IdleFlow
      /\ racing = IdleFlow
      /\ versions = NoVersions
      /\ clock = 1

\* What an edit of the accounts file makes of the envelope: the ciphertext
\* or the tag of a text (under the key in memory and the envelope's iv)
\* put in the place of the envelope's; the first bytes of the tag; the tag
\* spelled in upper case; a tag that spells no byte; no tag at all; no JSON
\* text; the envelope of a text under another key than the one in memory.
Edits ==
    {"ciphertext", "authTag", "first-bytes", "upper", "junk", "missing", "garbage",
     "other-key"}

\* The tag lengths an edit cuts the tag to.
CutLengths == {3, 4, 12}

Edited(envelope, edit, key, text, n) ==
    LET foreign == encrypt(text, key, FromHex(envelope.iv))
        other == CHOOSE k \in Keys : k # key
    IN  CASE edit = "other-key" -> encrypt(text, other, FromHex(envelope.iv))
          [] edit = "ciphertext" -> [envelope EXCEPT !.encrypted = foreign.encrypted]
          [] edit = "authTag" -> [envelope EXCEPT !.authTag = foreign.authTag]
          [] edit = "first-bytes" ->
               [envelope EXCEPT !.authTag.bytes = FirstBytes(foreign.authTag.bytes, n)]
          [] edit = "upper" -> [envelope EXCEPT !.authTag.spelling = "upper"]
          [] edit = "junk" -> [envelope EXCEPT !.authTag.spelling = "junk"]
          [] edit = "missing" -> [envelope EXCEPT !.authTag = MissingProperty]
          [] OTHER -> NotJson

CryptoCall(op, result) ==
    [NoCall EXCEPT !.op = op, !.result = result]

\* encrypt(text) of the text of the list, written to the accounts file.
EncryptStep(iv) ==
    /\ ~encryptThrows(encryptionKey)
    /\ disk' = [disk EXCEPT
                  !.home.blob = <<encrypt(JSONstringify(accounts), encryptionKey, iv)>>]
    /\ last' = CryptoCall("encrypt", TRUE)
    /\ returned' = <<>>
    /\ UNCHANGED <<accounts, activeAccount, storageConfig, encryptionKey, failures,
                   emptied, flow, racing, versions, clock>>

\* The accounts file is edited.
EditStep(edit, text, n) ==
    /\ disk.home.blob # <<>>
    /\ IsEnvelope(disk.home.blob[1])
    /\ Spelled(disk.home.blob[1].authTag)
    /\ disk' = [disk EXCEPT
                  !.home.blob = <<Edited(disk.home.blob[1], edit, encryptionKey, text, n)>>]
    /\ last' = CryptoCall("edit", TRUE)
    /\ returned' = <<>>
    /\ UNCHANGED <<accounts, activeAccount, storageConfig, encryptionKey, failures,
                   emptied, flow, racing, versions, clock>>

\* decrypt(encryptedJson) of the accounts file: the text it returns, or
\* nothing when it throws.
DecryptStep ==
    /\ disk.home.blob # <<>>
    /\ \E threw \in {decryptThrows(disk.home.blob[1], encryptionKey)} :
         /\ last' = CryptoCall("decrypt", ~threw)
         /\ returned' = IF threw THEN <<>>
                        ELSE <<decrypt(disk.home.blob[1], encryptionKey)>>
    /\ UNCHANGED <<accounts, activeAccount, storageConfig, encryptionKey, disk,
                   failures, emptied, flow, racing, versions, clock>>

Encrypt == \E iv \in IVs : EncryptStep(iv)

Edit == \E edit \in Edits, text \in Plaintexts, n \in CutLengths : EditStep(edit, text, n)

NextCrypto == Encrypt \/ Edit \/ DecryptStep

SpecCrypto == InitCrypto /\ [][NextCrypto]_vars

\* The envelope has the bytes of one encrypt makes under the key.
Produced(envelope, key) ==
    /\ IsEnvelope(envelope)
    /\ Spelled(envelope.iv) /\ Spelled(envelope.encrypted) /\ Spelled(envelope.authTag)
    /\ \E x \in Plaintexts, iv \in IVs :
         LET made == encrypt(x, key, iv)
         IN  /\ FromHex(envelope.iv) = FromHex(made.iv)
             /\ FromHex(envelope.encrypted) = FromHex(made.encrypted)
             /\ FromHex(envelope.authTag) = FromHex(made.authTag)

\* C29: decrypt throws, and returns no text, on every envelope whose
\* ciphertext or tag is not the one encrypt has produced, on an envelope
\* produced under another key and on a malformed envelope.
C29_DecryptRejectsWhatEncryptHasNotMade ==
    (last.op = "decrypt" /\ ~Produced(disk.home.blob[1], encryptionKey))
      => ~last.result /\ returned = <<>>

(***************************************************************************)
(* SpecConcurrent: two calls of mojangAuthenticate in flight at the same    *)
(* time. The second is started while the first awaits its response, and     *)
(* the two responses arrive in either order. A continuation runs from the   *)
(* response to the end of the call without another step in between:         *)
(* addAccount awaits nothing and saveAccounts writes synchronously.          *)
(***************************************************************************)
StartFirstStep(username, password, clientToken) ==
    /\ flow.pc = "idle" /\ racing.pc = "idle"
    /\ FlowCommit(NoStoreCall(Store, mojangAuthenticate(username, password, clientToken)))

StartSecondStep(username, password, clientToken) ==
    /\ flow.fn = "mojangAuthenticate" /\ flow.pc = ENDPOINTS.MOJANG.AUTH
    /\ racing.pc = "idle"
    /\ RacingCommit(NoStoreCall(Store,
           mojangAuthenticate(username, password, clientToken)))

FirstRespondsStep(response, env) ==
    /\ flow.pc = ENDPOINTS.MOJANG.AUTH
    /\ FlowCommit(MojangStep(Store, flow, response, env))

SecondRespondsStep(response, env) ==
    /\ racing.pc = ENDPOINTS.MOJANG.AUTH
    /\ RacingCommit(MojangStep(Store, racing, response, env))

StartFirst ==
    \E username \in Usernames, password \in Passwords :
      StartFirstStep(username, password, "ct3")

StartSecond ==
    \E username \in Usernames, password \in Passwords :
      StartSecondStep(username, password, "ct4")

FirstResponds ==
    \E response \in Responses(ENDPOINTS.MOJANG.AUTH, FewUuids, {"at5"}),
       env \in StoreEnvs :
      FirstRespondsStep(response, env)

SecondResponds ==
    \E response \in Responses(ENDPOINTS.MOJANG.AUTH, FewUuids, {"at5"}),
       env \in StoreEnvs :
      SecondRespondsStep(response, env)

NextConcurrent ==
    \/ StartFirst \/ StartSecond \/ FirstResponds \/ SecondResponds
    \/ ResumesStep \/ RacingResumesStep

SpecConcurrent == Init /\ [][NextConcurrent]_vars

\* The store a call finds when no other call has run.
Alone == [Store EXCEPT !.accounts = <<>>, !.activeAccount = 0]

\* What the continuation of one of two calls in flight does, the other
\* having been started: when it persists, the blob afterwards is the whole
\* list in memory encrypted by this call, whatever the other call had
\* written; when it does not, the blob stays; and the call settles as it
\* would have settled alone.
RaceStep(f, after, response, env) ==
    /\ IF Ending(after).status = "resolved"
       THEN /\ last'.op = "addAccount" /\ last'.result
            /\ disk'.home.blob =
                 <<encrypt(JSONstringify(accounts'), encryptionKey, env.iv)>>
            /\ disk' = [disk EXCEPT !.home.blob = disk'.home.blob]
       ELSE disk' = disk /\ accounts' = accounts
    /\ Continued(after)
    /\ Ending(after) = Ending(MojangStep(Alone, f, response, env).flow)

\* C30: of two calls that change the store and run concurrently, each
\* persists the whole list at the moment its continuation runs, so that
\* the blob after both is the one of the persist that ran last and the one
\* of the earlier persist is overwritten as a whole; and neither call fails
\* because of the other: each settles as it would have alone.
C30_LastPersistWins ==
    [][\A response \in Responses(ENDPOINTS.MOJANG.AUTH, FewUuids, {"at5"}),
          env \in StoreEnvs :
         /\ (racing.pc # "idle" /\ FirstRespondsStep(response, env))
              => RaceStep(flow, flow', response, env)
         /\ SecondRespondsStep(response, env)
              => RaceStep(racing, racing', response, env)
         /\ ResumeSettles
         /\ RacingResumesStep =>
              (racing'.outcome = racing.awaited /\ StoreUntouched)]_vars

\* Both calls have resolved, the second before the first: the list holds
\* the two accounts, and the blob is that list as the first call has
\* persisted it.
C30_Witness ==
    /\ flow.pc = "done" /\ flow.outcome.status = "resolved"
    /\ racing.pc = "done" /\ racing.outcome.status = "resolved"
    /\ Len(accounts) = 2
    /\ accounts[1].uuid = racing.outcome.value[1].uuid
    /\ accounts[2].uuid = flow.outcome.value[1].uuid
    /\ last.op = "addAccount" /\ last.uuid = accounts[2].uuid
    /\ disk.home.blob = <<encrypt(JSONstringify(accounts), encryptionKey, "iv2")>>

(***************************************************************************)
(* SpecCustom: the store on a custom backend whose handler has any subset   *)
(* of the four callbacks. The host's medium may hold the key and the list   *)
(* of an earlier run. The backend is configured, the store is changed, and  *)
(* the backend is configured again with another handler.                    *)
(***************************************************************************)
Handlers ==
    {Handler(read, write, readKey, writeKey) :
        read \in BOOLEAN, write \in BOOLEAN, readKey \in BOOLEAN, writeKey \in BOOLEAN}

\* What the host's medium may hold at the start.
PriorCustoms ==
    {EmptyElectronStore,
     [dir |-> TRUE, key |-> "k2",
      blob |-> <<encrypt(SavedList(FederatedAuth(2)), "k2", "iv1")>>]}

InitCustom ==
    \E custom \in PriorCustoms :
      /\ accounts = Unloaded.accounts
      /\ activeAccount = Unloaded.activeAccount
      /\ storageConfig = Unloaded.storageConfig
      /\ encryptionKey = Unloaded.encryptionKey
      /\ disk = [FreshMedia EXCEPT !.custom = custom]
      /\ failures = 0
      /\ last = Requiring
      /\ emptied = FALSE
      /\ returned = <<>>
      /\ flow = IdleFlow
      /\ racing = IdleFlow
      /\ versions = NoVersions
      /\ clock = 1

\* One new key, one iv, every write of the host accepted.
CustomEnvs == {env \in StorageEnvs : env.mkdirOk}

LoadCustom == \E env \in CustomEnvs : LoadStep(env)

ConfigureCustomStep(handler, env) ==
    ConfigureStorageStep(CustomConfig(handler), env)

ConfigureCustom ==
    \E handler \in Handlers, env \in CustomEnvs : ConfigureCustomStep(handler, env)

OnCustom == last.op # "require" /\ storageConfig.type = "custom"

AddAccountCustom ==
    /\ OnCustom
    /\ \E authData \in {LegacyAuth(1), NullAuthData}, env \in CustomEnvs :
         AddAccountStep(authData, env)

RemoveAccountCustom ==
    /\ OnCustom
    /\ \E uuid \in {1, 2}, env \in CustomEnvs : RemoveAccountStep(uuid, env)

SetActiveAccountCustom ==
    /\ OnCustom
    /\ \E uuid \in {1, 2}, env \in CustomEnvs : SetActiveAccountStep(uuid, env)

NextCustom ==
    \/ LoadCustom
    \/ ConfigureCustom
    \/ AddAccountCustom
    \/ RemoveAccountCustom
    \/ SetActiveAccountCustom

SpecCustom == InitCustom /\ [][NextCustom]_vars

\* The same store on the memory backend, which reads and writes nothing.
InMemory(S) == [S EXCEPT !.storageConfig.type = "memory"]

\* Two outcomes agree on the result, the list and the active account.
SameEffect(a, b) ==
    /\ a.result = b.result
    /\ a.store.accounts = b.store.accounts
    /\ a.store.activeAccount = b.store.activeAccount

\* C31: on a custom backend whose handler lacks any of the four callbacks
\* the initialization succeeds, an omitted read is "no blob" and an omitted
\* readKey "no key" (a new key is generated), an omitted write or writeKey
\* leaves the host's medium as it is and counts as success, and addAccount,
\* removeAccount and setActiveAccount return and change the list in memory
\* as they do on a store that persists nothing.
C31_OmittedCallbacksAreTolerated ==
    /\ OnCustom =>
         \A env \in CustomEnvs :
           /\ \A authData \in {LegacyAuth(1), FederatedAuth(2), NullAuthData} :
                SameEffect(addAccount(Store, authData, env),
                           addAccount(InMemory(Store), authData, env))
           /\ \A uuid \in {1, 2} :
                /\ SameEffect(removeAccount(Store, uuid, env),
                              removeAccount(InMemory(Store), uuid, env))
                /\ SameEffect(setActiveAccount(Store, uuid, env),
                              setActiveAccount(InMemory(Store), uuid, env))
           /\ \A authData \in {LegacyAuth(1)} :
                LET after == addAccount(Store, authData, env).store.disk.custom
                IN  /\ ~storageConfig.customHandler.write => after = disk.custom
                    /\ after.key = disk.custom.key
    /\ last.op # "require" =>
         \A handler \in Handlers, env \in CustomEnvs :
           LET configured == configureStorage(Store, CustomConfig(handler), env)
               after == configured.store
           IN  /\ configured.result /\ ~configured.ioFailed
               /\ after.storageConfig.initialized
               /\ ~handler.read => after.accounts = <<>> /\ after.activeAccount = 0
               /\ ~handler.readKey => after.encryptionKey = env.newKey
               /\ ~handler.writeKey => after.disk.custom.key = disk.custom.key
               /\ ~handler.write => after.disk.custom.blob = disk.custom.blob

\* The handler has neither write nor writeKey, the host's medium still holds
\* what it held, and the list in memory holds the account added under it.
C31_Witness ==
    /\ OnCustom /\ storageConfig.customHandler.present
    /\ ~storageConfig.customHandler.write /\ ~storageConfig.customHandler.writeKey
    /\ last.op = "addAccount" /\ last.result
    /\ Len(accounts) = 2 /\ accounts[2].uuid = 1 /\ activeAccount = 2
    /\ disk.custom \in PriorCustoms /\ disk.custom.blob # <<>>

(***************************************************************************)
(* versions.js: getVersions. One tick of the clock is half the cache        *)
(* duration (CACHE_DURATION = 60 * 60 * 1000 ms, line 11). Two calls may be *)
(* in flight at once; each keeps the options and the `now` of line 19 it    *)
(* was started with.                                                        *)
(***************************************************************************)
CACHE_DURATION == 2
MaxClock == 3

MANIFEST == "launchermeta.mojang.com/mc/game/version_manifest_v2.json"

\* An entry of the manifest has more properties than the three returned.
ManifestEntry(id, type) ==
    [id |-> id, type |-> type, releaseTime |-> "t", url |-> "u"]

Manifests ==
    {<<ManifestEntry("1.20", "release"), ManifestEntry("23w01a", "snapshot")>>,
     <<ManifestEntry("1.21", "release"), ManifestEntry("1.20", "release")>>}

\* The responses of the manifest request: the manifest, a body without a
\* versions array, an HTTP failure, and the abort of the 5000 ms timer.
Aborted == [net |-> TRUE, status |-> 0, body |-> [name |-> "AbortError"]]

ManifestResponses ==
    {[net |-> FALSE, status |-> 200, body |-> [versions |-> <<m>>]] : m \in Manifests}
      \cup {[net |-> FALSE, status |-> 200, body |-> [versions |-> <<>>]],
            [net |-> FALSE, status |-> 500, body |-> [versions |-> <<>>]],
            Aborted}

\* String.prototype.toLowerCase on the strings of the model.
ToLowerCase(s) ==
    CASE s = "RELEASE" -> "release"
      [] s = "SNAPSHOT" -> "snapshot"
      [] OTHER -> s

Options(type, forceRefresh) == [type |-> type, forceRefresh |-> forceRefresh]

\* Lines 66-70
VersionProjection(v) == [id |-> v.id, type |-> v.type, releaseTime |-> v.releaseTime]

\* Array.prototype.filter, in order.
RECURSIVE FilterByType(_, _)
FilterByType(list, type) ==
    IF list = <<>> THEN <<>>
    ELSE IF ToLowerCase(Head(list).type) = type
         THEN <<Head(list)>> \o FilterByType(Tail(list), type)
         ELSE FilterByType(Tail(list), type)

\* What getVersions resolves with: the list, or {error}.
VersionsError(message) == Resolved(<<[error |-> message]>>)

\* Lines 53-70: the answer from the cache.
AnswerFromCache(V, options) ==
    IF V.cachedVersions = <<>>
    THEN VersionsError("Failed to retrieve version information")
    ELSE LET filtered == IF Truthy(options.type)
                         THEN FilterByType(V.cachedVersions[1], ToLowerCase(options.type))
                         ELSE V.cachedVersions[1]
         IN  Resolved(<<[versions |-> [i \in 1..Len(filtered) |->
                                          VersionProjection(filtered[i])]]>>)

\* Line 20
UseCache(V, options, now) ==
    /\ ~options.forceRefresh
    /\ V.cachedVersions # <<>>
    /\ V.lastFetchTime # 0
    /\ now - V.lastFetchTime < CACHE_DURATION

\* Lines 15-29: the call up to the request, or up to its answer.
getVersions(V, options, now) ==
    LET f == [IdleFlow EXCEPT !.fn = "getVersions"]
    IN  IF Truthy(options.type)
           /\ ToLowerCase(options.type) \notin {"release", "snapshot"}
        THEN Settle(f, VersionsError("Invalid version type"))
        ELSE IF UseCache(V, options, now)
        THEN Settle(f, AnswerFromCache(V, options))
        ELSE Fetch(f, MANIFEST, [options |-> options, now |-> now])

\* A cache that is written only by the fetch that was started last.
Stamped_NewestOnly(V, list, now) ==
    IF now >= V.lastFetchTime
    THEN [cachedVersions |-> <<list>>, lastFetchTime |-> now]
    ELSE V

\* Lines 43-44: the list of the response, and the `now` of line 19.
Stamped(V, list, now) == [cachedVersions |-> <<list>>, lastFetchTime |-> now]

\* Lines 31-70: the continuation after the response: the cache afterwards
\* and the call settled.
VersionsStep(V, f, response) ==
    LET options == f.requests[1].payload.options
        now == f.requests[1].payload.now
    IN  IF response.net
        THEN [versions |-> V,
              flow |-> Settle(f, VersionsError(
                          IF response.body.name = "AbortError"
                          THEN "Request timed out" ELSE "fetch failed"))]
        ELSE IF ~Ok(response)
        THEN [versions |-> V, flow |-> Settle(f, VersionsError("HTTP Error"))]
        ELSE IF response.body.versions = <<>>
        THEN [versions |-> V,
              flow |-> Settle(f, VersionsError("Invalid response format from Mojang API"))]
        ELSE LET cached == Stamped(V, response.body.versions[1], now)
             IN  [versions |-> cached,
                  flow |-> Settle(f, AnswerFromCache(cached, options))]

OptionTypes == {Undefined, "SNAPSHOT", "beta"}

VersionOptions == {Options(type, force) : type \in OptionTypes, force \in BOOLEAN}

AccountsUntouched ==
    UNCHANGED <<accounts, activeAccount, storageConfig, encryptionKey, disk, failures,
                last, emptied, returned>>

Tick ==
    /\ clock < MaxClock
    /\ clock' = clock + 1
    /\ AccountsUntouched
    /\ UNCHANGED <<flow, racing, versions>>

GetVersionsStep(options) ==
    /\ Settled
    /\ flow' = getVersions(versions, options, clock)
    /\ AccountsUntouched
    /\ UNCHANGED <<racing, versions, clock>>

GetVersionsRacingStep(options) ==
    /\ racing.pc \in {"idle", "done"}
    /\ racing' = getVersions(versions, options, clock)
    /\ AccountsUntouched
    /\ UNCHANGED <<flow, versions, clock>>

VersionsRespondStep(response) ==
    /\ flow.pc = MANIFEST
    /\ \E x \in {VersionsStep(versions, flow, response)} :
         /\ versions' = x.versions
         /\ flow' = x.flow
    /\ AccountsUntouched
    /\ UNCHANGED <<racing, clock>>

VersionsRespondRacingStep(response) ==
    /\ racing.pc = MANIFEST
    /\ \E x \in {VersionsStep(versions, racing, response)} :
         /\ versions' = x.versions
         /\ racing' = x.flow
    /\ AccountsUntouched
    /\ UNCHANGED <<flow, clock>>

GetVersions1 == \E options \in VersionOptions : GetVersionsStep(options)

GetVersions2 ==
    \E options \in {Options(Undefined, force) : force \in BOOLEAN} :
      GetVersionsRacingStep(options)

VersionsRespond1 == \E response \in ManifestResponses : VersionsRespondStep(response)

VersionsRespond2 ==
    \E response \in ManifestResponses : VersionsRespondRacingStep(response)

NextVersions == Tick \/ GetVersions1 \/ GetVersions2 \/ VersionsRespond1 \/ VersionsRespond2

SpecVersions == Init /\ [][NextVersions]_vars

\* The call has fetched the manifest successfully.
Fetched(f) ==
    /\ f.fn = "getVersions" /\ f.pc = "done"
    /\ Len(f.requests) = 1
    /\ "versions" \in DOMAIN f.outcome.value[1]

\* A fetch that succeeded was issued less than the cache duration ago.
FreshlyFetched ==
    \E f \in {flow, racing} :
      Fetched(f) /\ clock - f.requests[1].payload.now < CACHE_DURATION

ValidType(options) ==
    ~Truthy(options.type) \/ ToLowerCase(options.type) \in {"release", "snapshot"}

\* What starting a call must come to.
VersionsStart(options, after) ==
    /\ (ValidType(options) /\ ~options.forceRefresh /\ FreshlyFetched)
         => /\ after.pc = "done" /\ after.requests = <<>>
            /\ after.outcome = AnswerFromCache(versions, options)
            /\ "versions" \in DOMAIN after.outcome.value[1]
    /\ (ValidType(options) /\ options.forceRefresh)
         => after.pc = MANIFEST /\ Len(after.requests) = 1
    /\ ~ValidType(options)
         => /\ after.pc = "done" /\ after.requests = <<>>
            /\ "error" \in DOMAIN after.outcome.value[1]

\* What the continuation of a failed fetch must come to.
VersionsFailure(response, after) ==
    (response.net \/ ~Ok(response) \/ response.body.versions = <<>>)
      => /\ versions' = versions
         /\ after.pc = "done"
         /\ "error" \in DOMAIN after.outcome.value[1]

\* C32: getVersions without forceRefresh, called less than the cache
\* duration after a successful fetch, issues no request and answers from
\* the cached list; with forceRefresh it issues a request; with a type
\* other than release or snapshot it returns an error, issues no request
\* and leaves the cache alone; a failed fetch returns an error and leaves
\* the cached list and its timestamp as they were.
C32_CacheIsUsedWhileFresh ==
    [][/\ \A options \in VersionOptions :
            /\ GetVersionsStep(options) => VersionsStart(options, flow')
            /\ GetVersionsRacingStep(options) => VersionsStart(options, racing')
       /\ \A response \in ManifestResponses :
            /\ VersionsRespondStep(response) => VersionsFailure(response, flow')
            /\ VersionsRespondRacingStep(response) => VersionsFailure(response, racing')
      ]_vars

(***************************************************************************)
(* SpecFaulty: the four mutators on a backend that may refuse a write (at   *)
(* most MaxWriteFailures of them).                                          *)
(***************************************************************************)
\* The accounts of the faulty backend and its environments: one iv, a
\* write that is accepted or refused.
FaultyUuids == {1, 2}
FaultyWrites == {env \in FaultyEnvs : env.iv = "iv1"}

AddAccountFaulty ==
    \E authData \in AuthInputs(FaultyUuids), env \in FaultyWrites :
      AddAccountStep(authData, env)

RemoveAccountFaulty ==
    \E uuid \in FaultyUuids, env \in FaultyWrites : RemoveAccountStep(uuid, env)

SetActiveAccountFaulty ==
    \E uuid \in FaultyUuids, env \in FaultyWrites : SetActiveAccountStep(uuid, env)

UpdateAuthDataFaulty ==
    \E uuid \in FaultyUuids, env \in FaultyWrites :
      UpdateAuthDataStep(uuid, RefreshedAuth, env)

NextFaulty ==
    \/ AddAccountFaulty
    \/ RemoveAccountFaulty
    \/ SetActiveAccountFaulty
    \/ UpdateAuthDataFaulty

SpecFaulty == Init /\ [][NextFaulty]_vars

\* C33: the active account that getActiveAccount() and getAuthData() look
\* at is null exactly when the list is empty, and otherwise it is a record
\* of the list that is flagged active: its uuid is in getAccounts() with
\* active = true.
C33_ActivePointerIsAFlaggedMember ==
    /\ (activeAccount = 0) <=> (accounts = <<>>)
    /\ (getActiveAccount(Store) = <<>>) <=> (accounts = <<>>)
    /\ (getAuthData(Store, 0) = <<>>) <=> (accounts = <<>>)
    /\ accounts # <<>> =>
         /\ activeAccount \in 1..Len(accounts)
         /\ accounts[activeAccount].active
         /\ getAuthData(Store, 0)[1].uuid = getActiveAccount(Store)[1].uuid
         /\ \E i \in 1..Len(getAccounts(Store)) :
              /\ getAccounts(Store)[i].uuid = getActiveAccount(Store)[1].uuid
              /\ getAccounts(Store)[i].active

\* A write was refused; the active account was removed and the one that
\* remained was promoted.
C33_Witness ==
    /\ last.op = "removeAccount" /\ last.result /\ last.wasActive
    /\ Len(accounts) = 1
    /\ activeAccount = 1 /\ accounts[1].active
    /\ failures > 0

\* C35: a mutator that returns false has left the list in memory and the
\* active account as they were, also when it is the persist that failed; a
\* login that rejects with "Failed to save account" has neither added nor
\* activated the account.
C35_FalseMeansUnchanged ==
    [][(last' # last /\ ~last'.result)
         => accounts' = accounts /\ activeAccount' = activeAccount]_vars

(***************************************************************************)
(* SpecReload: the four mutators on the file backend, every write           *)
(* accepted, and the initialization run again on the same backend           *)
(* (configureStorage with a configuration that changes nothing).            *)
(***************************************************************************)
ReloadStep(env) == ConfigureStorageStep(Config(Undefined, Undefined, FALSE), env)

Reload == \E env \in StoreEnvs : ReloadStep(env)

NextReload ==
    \/ AddAccountFew
    \/ RemoveAccountFew
    \/ SetActiveAccountFew
    \/ UpdateAuthDataFew
    \/ Reload

SpecReload == Init /\ [][NextReload]_vars

\* C34: running the initialization again on the same backend, after
\* mutators whose writes succeeded, yields the same list in the same order
\* with the same secrets, and getActiveAccount() names the same uuid as
\* before.
C34_ReloadIsTheIdentity ==
    [][\A env \in StoreEnvs :
         ReloadStep(env)
           => /\ last'.result
              /\ accounts' = accounts
              /\ getActiveAccount(Store') = getActiveAccount(Store)]_vars

(***************************************************************************)
(* Two microsoftAuthenticateWithCode calls in flight at once (auth.js      *)
(* lines 75-205): each is suspended on one of its five requests while the  *)
(* continuation of the other runs, and each adds its account when its      *)
(* profile request has answered (line 196).                                *)
(***************************************************************************)
StartFirstLoginStep(code, redirectUri, clientId) ==
    /\ flow.pc = "idle" /\ racing.pc = "idle"
    /\ FlowCommit(NoStoreCall(Store,
           microsoftAuthenticateWithCode(code, redirectUri, clientId)))

StartSecondLoginStep(code, redirectUri, clientId) ==
    /\ flow.fn = "microsoftAuthenticateWithCode" /\ flow.pc # "idle"
    /\ racing.pc = "idle"
    /\ RacingCommit(NoStoreCall(Store,
           microsoftAuthenticateWithCode(code, redirectUri, clientId)))

FirstLoginRespondsStep(response, clientToken, now, env) ==
    /\ flow.fn = "microsoftAuthenticateWithCode" /\ Suspended(flow)
    /\ FlowCommit(LoginStep(Store, flow, response, clientToken, now, env))

SecondLoginRespondsStep(response, clientToken, now, env) ==
    /\ racing.fn = "microsoftAuthenticateWithCode"
    /\ Suspended(racing)
    /\ RacingCommit(LoginStep(Store, racing, response, clientToken, now, env))

\* The accounts stored before the two calls begin.
LoginBefore ==
    /\ flow.pc = "idle" /\ racing.pc = "idle"
    /\ LoginAuth

StartFirstLogin ==
    \E redirectUri \in RedirectUris : StartFirstLoginStep("code1", redirectUri, "cid")

StartSecondLogin ==
    \E redirectUri \in RedirectUris : StartSecondLoginStep("code2", redirectUri, "cid")

\* The responses on which a login goes on: success statuses.
Successes(endpoint) ==
    {a \in Responses(endpoint, FewUuids, {"at3"}) : ~a.net /\ Ok(a)}

FirstLoginResponds ==
    \E response \in Successes(flow.pc), env \in StoreEnvs :
      FirstLoginRespondsStep(response, "ct3", 3, env)

SecondLoginResponds ==
    \E response \in Successes(racing.pc), env \in StoreEnvs :
      SecondLoginRespondsStep(response, "ct4", 3, env)

NextLogins ==
    \/ LoginBefore
    \/ StartFirstLogin
    \/ StartSecondLogin
    \/ FirstLoginResponds
    \/ SecondLoginResponds
    \/ ResumesStep
    \/ RacingResumesStep

SpecLogins == Init /\ [][NextLogins]_vars

\* The list that the key in memory decrypts the blob to.
PersistedAccounts ==
    IF disk.home.blob = <<>> THEN <<>>
    ELSE JSONparse(decrypt(disk.home.blob[1], encryptionKey))

BothLoggedIn ==
    /\ flow.pc = "done" /\ flow.outcome.status = "resolved"
    /\ racing.pc = "done" /\ racing.outcome.status = "resolved"
    /\ flow.outcome.value[1].uuid # racing.outcome.value[1].uuid

\* C36: after two concurrent logins that both succeed with distinct uuids,
\* the list in memory and the persisted blob both hold both accounts, and
\* exactly one of the two is active: the one whose addAccount ran last.
C36_BothLoginsAreStoredAndTheLastIsActive ==
    BothLoggedIn =>
        LET mine == {flow.outcome.value[1].uuid, racing.outcome.value[1].uuid}
        IN  /\ \A u \in mine : UuidIsStored(u)
            /\ \A u \in mine :
                 \E i \in 1..Len(PersistedAccounts) : PersistedAccounts[i].uuid = u
            /\ last.op = "addAccount" /\ last.uuid \in mine
            /\ \A i \in 1..Len(accounts) :
                 accounts[i].uuid \in mine =>
                     (accounts[i].active <=> accounts[i].uuid = last.uuid)

\* C37: while the account of a refresh is not in the list (it was stored
\* when the refresh began, and removed while the refresh was suspended on
\* a request), no continuation of the refresh changes the list, the active
\* account or the blob: the account is not added again and no other record
\* is touched; and when the last hop has answered, the refresh rejects.
C37_RefreshOfARemovedAccountRejects ==
    [][\A response \in Responses(flow.pc, FewUuids, {"at3", "at4"}),
          now \in AuthTimes, env \in StoreEnvs :
         (/\ flow.fn = "refreshMicrosoftToken"
          /\ ~UuidIsStored(flow.uuid)
          /\ RefreshRespondsStep(response, now, env)) =>
            /\ accounts' = accounts
            /\ activeAccount' = activeAccount
            /\ disk' = disk
            /\ flow'.pc = "done" => flow'.outcome.status = "rejected"
            /\ flow.pc = ENDPOINTS.MICROSOFT.MINECRAFT => flow'.pc = "done"
      ]_vars

\* C37's case: the four hops of a refresh have succeeded, its account was
\* removed meanwhile, another account is stored, and the refresh has
\* rejected at updateAuthData.
C37_Witness ==
    /\ flow.fn = "refreshMicrosoftToken" /\ flow.pc = "done"
    /\ flow.minecraftData # <<>>
    /\ flow.outcome.status = "rejected"
    /\ flow.outcome.error.text = "Failed to update account auth data"
    /\ last.op = "updateAuthData" /\ ~last.result
    /\ ~UuidIsStored(flow.uuid)
    /\ Len(accounts) = 1

(***************************************************************************)
(* SpecLogout: logoutAccount() without a uuid, with legacy logins and       *)
(* setActiveAccount running while the call is suspended on its invalidate   *)
(* request.                                                                 *)
(***************************************************************************)
LoginLegacy ==
    \E uuid \in FewUuids, env \in StoreEnvs : AddAccountStep(LegacyAuth(uuid), env)

StartLogoutActive == \E env \in StoreEnvs : StartLogoutStep(0, env)

LogoutAnswers ==
    \E response \in Responses(flow.pc, FewUuids, {"at3"}), env \in StoreEnvs :
      LogoutRespondsStep(response, env)

NextLogout ==
    \/ LoginLegacy \/ LoginAuth \/ SetActiveAccountFew
    \/ StartLogoutActive \/ LogoutAnswers

SpecLogout == Init /\ [][NextLogout]_vars

\* The records of the list other than the one of `uuid`, in order.
Others(accs, uuid) == SelectSeq(accs, LAMBDA acc : acc.uuid # uuid)

\* C38: logoutAccount() without a uuid removes the account that was active
\* when the call began: the call suspends holding that account's uuid (or
\* removes it at once when no request is due), and when its request has
\* answered it removes the account of that uuid and no other; an account
\* that was added or made active meanwhile stays in the list as it is and
\* stays the active account.
C38_LogoutRemovesTheAccountResolvedAtTheStart ==
    [][/\ \A env \in StoreEnvs :
            (activeAccount # 0 /\ StartLogoutStep(0, env)) =>
                IF accounts[activeAccount].type = "mojang"
                THEN /\ flow'.pc = ENDPOINTS.MOJANG.INVALIDATE
                     /\ flow'.uuid = ActiveUuid
                     /\ accounts' = accounts /\ activeAccount' = activeAccount
                ELSE /\ flow'.pc = "done" /\ flow'.outcome.valid
                     /\ [i \in 1..Len(accounts') |-> accounts'[i].uuid] =
                          UuidsWithout(accounts, ActiveUuid)
       /\ \A response \in Responses(flow.pc, FewUuids, {"at3"}), env \in StoreEnvs :
            (UuidIsStored(flow.uuid) /\ LogoutRespondsStep(response, env)) =>
                /\ flow'.pc = "done" /\ flow'.outcome.valid
                /\ ~UuidIsStored(flow.uuid)'
                /\ ActiveUuid # flow.uuid =>
                     /\ accounts' = Others(accounts, flow.uuid)
                     /\ ActiveUuid' = ActiveUuid
                     /\ accounts'[activeAccount'].active
      ]_vars

\* C38's case: a logout without uuid has removed the account it had found
\* active, after another account was made the active one while the
\* invalidate request was in flight; that account is still stored and
\* active.
C38_Witness ==
    /\ flow.fn = "logoutAccount" /\ flow.pc = "done" /\ flow.outcome.valid
    /\ flow.requests # <<>>
    /\ last.op = "removeAccount" /\ last.result /\ ~last.wasActive
    /\ last.uuid = flow.uuid
    /\ activeAccount # 0 /\ accounts[activeAccount].active
    /\ ActiveUuid # flow.uuid

\* C39: whenever a store operation writes the blob of the backend, the key
\* that backend holds afterwards decrypts the blob to the list in memory:
\* no blob is persisted under a key that the backend has not taken (the key
\* write failed, or the handler has no writeKey), so that a later
\* initialization on the backend reads the accounts back.
C39_BlobIsUnderTheKeyOfItsBackend ==
    [][(storageConfig'.type = "custom" /\ disk'.custom.blob # disk.custom.blob) =>
          /\ disk'.custom.blob # <<>>
          /\ ~decryptThrows(disk'.custom.blob[1], disk'.custom.key)
          /\ JSONparse(decrypt(disk'.custom.blob[1], disk'.custom.key)) = accounts'
      ]_vars

\* C40: in refreshMicrosoftToken, when hop 3 fails with the
\* account-not-linked code, the refresh rejects with the dedicated failure
\* of the code exchange, which differs from the failure of any other hop-3
\* error status; hop 4 is not issued and the store is unchanged.
C40_RefreshNotLinkedShortCircuits ==
    [][\A response \in Responses(flow.pc, FewUuids, {"at3", "at4"}),
          now \in AuthTimes, env \in StoreEnvs :
         (/\ flow.fn = "refreshMicrosoftToken"
          /\ flow.pc = ENDPOINTS.MICROSOFT.XSTS
          /\ ~response.net /\ ~Ok(response)
          /\ RefreshRespondsStep(response, now, env)) =>
            /\ flow'.pc = "done"
            /\ flow'.outcome.status = "rejected"
            /\ (response.body.XErr = XErrNoXboxAccount) <=>
                   (flow'.outcome.error.text =
                        "The Microsoft account does not have an Xbox account")
            /\ (response.body.XErr # XErrNoXboxAccount) <=>
                   (flow'.outcome.error.text = "Failed to get XSTS token")
            /\ flow'.requests = flow.requests
            /\ StoreUntouched
      ]_vars

====
